---------------------------- MODULE Spec2Model ----------------------------
(***************************************************************************)
(* znc_searcher: the importer (import_logs.py) that walks                  *)
(* network/channel/file directories into the relational store, and the     *)
(* web application's read paths over that store (znc_search.py: search     *)
(* and context), its login and 2FA handlers, and user_admin.py.            *)
(*                                                                         *)
(* Text (file names, log lines, queries) is a sequence of characters, each *)
(* character a one-character string.  The control characters of IRC        *)
(* formatting have no TLA+ literal and are written as named tokens.        *)
(***************************************************************************)
EXTENDS Integers, Sequences, FiniteSets, TLC

VARIABLES
    fs,           \* the log directory tree under ZNC_BASE_PATH (never written)
    networks,     \* table networks: id -> display_name (committed rows)
    channels,     \* table channels: committed rows <<network_id, name>>, in id order
    log_entries,  \* table log_entries: committed rows, in AUTOINCREMENT id order
    txn,          \* the importer connection's open transaction
    imp,          \* the importer: position in import_network and its locals
    runs,         \* import_network calls: how many started, which networks' calls
                  \* returned, how often the process died, how many inserts raised
    last,         \* the last import_network call that returned, and what it returned
    resp,         \* the web response being sent (or the date parse_log_date returned)
    main,         \* the import process: position in main(), its arguments, its exit status
    session,      \* the browser session of the web requests
    peer,         \* a second import process: its position and its open transaction
    users         \* table users: username -> the row's other columns

vars == <<fs, networks, channels, log_entries, txn, imp, runs, last, resp, main, session,
          peer, users>>

---------------------------------------------------------------------------
(* Characters *)

Digits == {"0", "1", "2", "3", "4", "5", "6", "7", "8", "9"}

LowerLetters ==
    << "a", "b", "c", "d", "e", "f", "g", "h", "i", "j", "k", "l", "m",
       "n", "o", "p", "q", "r", "s", "t", "u", "v", "w", "x", "y", "z" >>

UpperLetters ==
    << "A", "B", "C", "D", "E", "F", "G", "H", "I", "J", "K", "L", "M",
       "N", "O", "P", "Q", "R", "S", "T", "U", "V", "W", "X", "Y", "Z" >>

LowerCase == { LowerLetters[i] : i \in 1..26 }

UpperCase == { UpperLetters[i] : i \in 1..26 }

\* \x03 (colour), \x02 (bold), \x1D (italic), \x1F (underline), \x16 (reverse), \x0F (reset)
X03 == "x03"
X02 == "x02"
X1D == "x1D"
X1F == "x1F"
X16 == "x16"
X0F == "x0F"

\* Python's \w on str: letters, digits and the underscore
WordChars == Digits \cup LowerCase \cup UpperCase \cup {"_"}

\* what str.strip() / str.rstrip() remove: the characters with str.isspace(),
\* \x1D and \x1F (information separators) among them
Whitespace == {" ", "\n", "\t", "\r", X1D, X1F}

\* the characters of the model in code point order (sorted() compares code points)
CodePoints ==
    << X02, X03, "\t", "\n", "\r", X0F, X16, X1D, X1F,
       " ", "!", "#", "%", "*", ",", "-", ".", "/",
       "0", "1", "2", "3", "4", "5", "6", "7", "8", "9", ":", "<", ">" >>
    \o UpperLetters \o << "[", "\\", "]", "_" >> \o LowerLetters

Ord(c) == CHOOSE i \in 1..Len(CodePoints) : CodePoints[i] = c

DigitVal(c) ==
    CASE c = "0" -> 0 [] c = "1" -> 1 [] c = "2" -> 2 [] c = "3" -> 3 [] c = "4" -> 4
      [] c = "5" -> 5 [] c = "6" -> 6 [] c = "7" -> 7 [] c = "8" -> 8 [] c = "9" -> 9

\* str.lower() / case folding of one character
Lower(c) ==
    IF c \in UpperCase THEN LowerLetters[CHOOSE i \in 1..26 : UpperLetters[i] = c] ELSE c

---------------------------------------------------------------------------
(* Strings *)

Drop(s, n) == SubSeq(s, n + 1, Len(s))

Take(s, n) == SubSeq(s, 1, n)

StartsWith(s, p) == Len(p) <= Len(s) /\ Take(s, Len(p)) = p

EndsWith(s, p) == Len(p) <= Len(s) /\ Drop(s, Len(s) - Len(p)) = p

\* s < t as Python compares str: by code points, a proper prefix first
RECURSIVE StrLess(_, _)
StrLess(s, t) ==
    IF t = <<>> THEN FALSE
    ELSE IF s = <<>> THEN TRUE
    ELSE IF s[1] = t[1] THEN StrLess(Tail(s), Tail(t))
    ELSE Ord(s[1]) < Ord(t[1])

\* sorted(S) for a set of strings
RECURSIVE SortedStrs(_)
SortedStrs(S) ==
    IF S = {} THEN <<>>
    ELSE LET m == CHOOSE x \in S : \A y \in S \ {x} : StrLess(x, y)
         IN  <<m>> \o SortedStrs(S \ {m})

\* str.replace(old, ''): every non-overlapping occurrence, left to right
RECURSIVE RemoveAll(_, _)
RemoveAll(s, old) ==
    IF s = <<>> THEN <<>>
    ELSE IF StartsWith(s, old) THEN RemoveAll(Drop(s, Len(old)), old)
    ELSE <<s[1]>> \o RemoveAll(Tail(s), old)

\* str.split('_')[-1]: what follows the last underscore (all of s without one)
RECURSIVE LastSegment(_)
LastSegment(s) ==
    IF \E i \in 1..Len(s) : s[i] = "_"
    THEN LastSegment(Drop(s, CHOOSE i \in 1..Len(s) : s[i] = "_"))
    ELSE s

\* str.rstrip('\n'): the line terminator only
RStrip_NewlineOnly(s) ==
    IF s # <<>> /\ s[Len(s)] = "\n" THEN Take(s, Len(s) - 1) ELSE s

\* str.rstrip()
RECURSIVE RStrip(_)
RStrip(s) ==
    IF s # <<>> /\ s[Len(s)] \in Whitespace THEN RStrip(Take(s, Len(s) - 1)) ELSE s

RECURSIVE LStrip(_)
LStrip(s) ==
    IF s # <<>> /\ s[1] \in Whitespace THEN LStrip(Tail(s)) ELSE s

\* str.strip()
Strip(s) == RStrip(LStrip(s))

DotLog == <<".", "l", "o", "g">>

---------------------------------------------------------------------------
(* datetime.strptime, for the two formats parse_log_date uses *)

None == <<>>

IsLeap(y) == (y % 4 = 0 /\ y % 100 # 0) \/ y % 400 = 0

DaysIn(y, m) ==
    IF m = 2 THEN (IF IsLeap(y) THEN 29 ELSE 28)
    ELSE IF m \in {4, 6, 9, 11} THEN 30 ELSE 31

\* datetime(y, m, d): ValueError (None here) outside the calendar; MINYEAR is 1
MakeDate(y, m, d) ==
    IF y >= 1 /\ m \in 1..12 /\ d >= 1 /\ d <= DaysIn(y, m) THEN <<y, m, d>> ELSE None

IsDigitAt(s, i) == i >= 1 /\ i <= Len(s) /\ s[i] \in Digits

\* %Y is (\d\d\d\d): the year at position 1, or -1
YearAt(s) ==
    IF \A i \in 1..4 : IsDigitAt(s, i)
    THEN DigitVal(s[1]) * 1000 + DigitVal(s[2]) * 100 + DigitVal(s[3]) * 10 + DigitVal(s[4])
    ELSE -1

Num2(s, i) == DigitVal(s[i]) * 10 + DigitVal(s[i + 1])

\* %m is (1[0-2]|0[1-9]|[1-9]): the ways it matches at position i, as
\* <<length, value>>, in the order the regex engine tries them
MonthAlts(s, i) ==
    (IF IsDigitAt(s, i) /\ IsDigitAt(s, i + 1) /\ s[i] = "1" /\ s[i + 1] \in {"0", "1", "2"}
        THEN << <<2, Num2(s, i)>> >> ELSE <<>>)
    \o (IF IsDigitAt(s, i) /\ IsDigitAt(s, i + 1) /\ s[i] = "0" /\ s[i + 1] # "0"
        THEN << <<2, Num2(s, i)>> >> ELSE <<>>)
    \o (IF IsDigitAt(s, i) /\ s[i] # "0" THEN << <<1, DigitVal(s[i])>> >> ELSE <<>>)

\* %d is (3[0-1]|[1-2]\d|0[1-9]|[1-9]| [1-9])
DayAlts(s, i) ==
    (IF IsDigitAt(s, i) /\ IsDigitAt(s, i + 1) /\ s[i] = "3" /\ s[i + 1] \in {"0", "1"}
        THEN << <<2, Num2(s, i)>> >> ELSE <<>>)
    \o (IF IsDigitAt(s, i) /\ IsDigitAt(s, i + 1) /\ s[i] \in {"1", "2"}
        THEN << <<2, Num2(s, i)>> >> ELSE <<>>)
    \o (IF IsDigitAt(s, i) /\ IsDigitAt(s, i + 1) /\ s[i] = "0" /\ s[i + 1] # "0"
        THEN << <<2, Num2(s, i)>> >> ELSE <<>>)
    \o (IF IsDigitAt(s, i) /\ s[i] # "0" THEN << <<1, DigitVal(s[i])>> >> ELSE <<>>)
    \o (IF i <= Len(s) /\ s[i] = " " /\ IsDigitAt(s, i + 1) /\ s[i + 1] # "0"
        THEN << <<2, DigitVal(s[i + 1])>> >> ELSE <<>>)

\* The regex match of year, sep, month, sep, day at the start of s (sep is "-"
\* or nothing): the first month alternative after which the rest matches, and
\* the first day alternative after it.  ValueError when nothing matches, when
\* text is left over ("unconverted data remains") or when the date is invalid.
StrpDate(s, sep) ==
    LET y  == YearAt(s)
        p  == 5 + Len(sep)            \* where the month starts
        ok(a) == /\ SubSeq(s, p + a[1], p + a[1] + Len(sep) - 1) = sep
                 /\ DayAlts(s, p + a[1] + Len(sep)) # <<>>
        ms == MonthAlts(s, p)
    IN  IF y < 0 \/ SubSeq(s, 5, 4 + Len(sep)) # sep THEN None
        ELSE IF \A k \in 1..Len(ms) : ~ok(ms[k]) THEN None
        ELSE LET k == CHOOSE k \in 1..Len(ms) : ok(ms[k]) /\ \A j \in 1..(k - 1) : ~ok(ms[j])
                 q == p + ms[k][1] + Len(sep)
                 d == DayAlts(s, q)[1]
             IN  IF q + d[1] - 1 # Len(s) THEN None
                 ELSE MakeDate(y, ms[k][2], d[2])

\* datetime.strptime(s, '%Y-%m-%d')
StrptimeDash(s) == StrpDate(s, <<"-">>)

\* datetime.strptime(s, '%Y%m%d')
StrptimeCompact(s) == StrpDate(s, <<>>)

parse_log_date_DashOnly(filename) == StrptimeDash(RemoveAll(filename, DotLog))

parse_log_date(filename) ==
    LET date_str == RemoveAll(filename, DotLog)
    IN  IF StrptimeDash(date_str) # None THEN StrptimeDash(date_str)
        ELSE StrptimeCompact(LastSegment(date_str))

\* log_date.strftime('%Y-%m-%d') as stored in log_date; the zero-padded
\* fields make the text order the order of the number yyyymmdd
DateStr(date) == date[1] * 10000 + date[2] * 100 + date[3]

---------------------------------------------------------------------------
(* strip_irc_formatting *)

\* how many characters the optional group (?:\d{1,2}(?:,\d{1,2})?)? takes at
\* the start of s, greedily
ColourArgLen(s) ==
    LET n1 == IF IsDigitAt(s, 1) THEN (IF IsDigitAt(s, 2) THEN 2 ELSE 1) ELSE 0
        n2 == IF n1 > 0 /\ Len(s) > n1 /\ s[n1 + 1] = "," /\ IsDigitAt(s, n1 + 2)
              THEN (IF IsDigitAt(s, n1 + 3) THEN 3 ELSE 2)
              ELSE 0
    IN  n1 + n2

\* re.sub(r'\x03(?:\d{1,2}(?:,\d{1,2})?)?', '', text)
RECURSIVE RemoveColours(_)
RemoveColours(s) ==
    IF s = <<>> THEN <<>>
    ELSE IF s[1] = X03 THEN RemoveColours(Drop(s, 1 + ColourArgLen(Tail(s))))
    ELSE <<s[1]>> \o RemoveColours(Tail(s))

\* re.sub(r'[\x02\x1D\x1F\x16\x0F]', '', text)
RemoveToggles(s) == SelectSeq(s, LAMBDA c : c \notin {X02, X1D, X1F, X16, X0F})

strip_irc_formatting_TogglesOnly(text) == RemoveToggles(text)

strip_irc_formatting(text) == RemoveToggles(RemoveColours(text))

---------------------------------------------------------------------------
(* The log directory trees.  fs[network] is <base>/<network>/moddata/log:  *)
(* whether it exists and its entries by name; an entry is a channel        *)
(* directory holding files by name, or something that is not a directory;  *)
(* a file is its lines as readlines() returns them, or cannot be opened.   *)

NetworkIds == {"foo", "mam"}

NETWORK_NAMES == [torrentleech |-> "Torrentleech", mam |-> "MAM"]

\* network_id.capitalize(), for the identifiers of the model
Capitalize(n) == CASE n = "foo" -> "Foo" [] n = "mam" -> "Mam" [] OTHER -> n

\* NETWORK_NAMES.get(network_id, network_id.capitalize())
DisplayName(n) == IF n \in DOMAIN NETWORK_NAMES THEN NETWORK_NAMES[n] ELSE Capitalize(n)

File(lines) == [readable |-> TRUE, lines |-> lines]

Unreadable == [readable |-> FALSE, lines |-> <<>>]

Dir(files) == [isdir |-> TRUE, files |-> files]

NotADir == [isdir |-> FALSE, files |-> <<>>]

LogBase(entries) == [exists |-> TRUE, entries |-> entries]

NoLogBase == [exists |-> FALSE, entries |-> <<>>]

F_0101 ==
    << "2", "0", "2", "5", "-", "0", "1", "-", "0", "1", ".", "l", "o",
       "g" >>

F_0102 ==
    << "2", "0", "2", "5", "-", "0", "1", "-", "0", "2", ".", "l", "o",
       "g" >>

F_0103_txt ==
    << "2", "0", "2", "5", "-", "0", "1", "-", "0", "3", ".", "t", "x",
       "t" >>

F_0104 ==
    << "2", "0", "2", "5", "-", "0", "1", "-", "0", "4", ".", "l", "o",
       "g" >>

F_0105 ==
    << "2", "0", "2", "5", "-", "0", "1", "-", "0", "5", ".", "l", "o",
       "g" >>

F_chan_0101 ==
    << "c", "h", "a", "n", "_", "2", "0", "2", "5", "0", "1", "0", "1",
       ".", "l", "o", "g" >>

F_bare_0102 ==
    << "2", "0", "2", "5", "0", "1", "0", "2", ".", "l", "o", "g" >>

F_notes ==
    << "n", "o", "t", "e", "s", ".", "l", "o", "g" >>

L_join ==
    << "[", "0", "8", ":", "0", "0", ":", "0", "0", "]", " ", "*", "*",
       "*", " ", "J", "o", "i", "n", "s", ":", " ", "b", "o", "b", "\n" >>

L_hello ==
    << "[", "0", "8", ":", "0", "0", ":", "0", "5", "]", " ", "<", "b",
       "o", "b", ">", " ", "h", "e", "l", "l", "o", "\n" >>

L_nickserv ==
    << "[", "0", "8", ":", "0", "0", ":", "1", "0", "]", " ", "<", "N",
       "i", "c", "k", "S", "e", "r", "v", ">", " ", "n", "o", "t", "i",
       "c", "e", "\n" >>

L_world ==
    << "<", "a", "l", ">", " ", "s", "a", "y", " ", "h", "e", "l", "l",
       "o", " ", "w", "o", "r", "l", "d", " ", "n", "o", "w", "\n" >>

L_url ==
    << "<", "a", "l", ">", " ", "s", "e", "e", " ", "a", "_", "b", "/",
       "c", "%", "d", " ", X1D, "\n" >>

L_colour ==
    << X03, "0", "4", ",", "1", "2", "H", "e", "l", "l", "o", X0F, " ",
       X02, "a", "1", "b", X02, "\n" >>

L_blank ==
    << "\n" >>

L_axb ==
    << "<", "b", "o", ">", " ", "a", "X", "b", " ", "c", "5", "d", "\n" >>

\* the channel directory of the end-to-end scenario
ScenarioTree ==
    [foo |-> LogBase(("#a" :> Dir(F_0101 :> File(<<L_join, L_hello, L_nickserv>>)))),
     mam |-> NoLogBase]

\* two files of one date, an empty file, a file that cannot be read, names
\* that do not parse or do not end in ".log", an entry that is no directory
MixedTree ==
    [foo |-> LogBase(
        ("#a" :> Dir(  (F_0101 :> File(<<L_world, L_axb>>))
                    @@ (F_chan_0101 :> File(<<L_hello>>))
                    @@ (F_0102 :> File(<<L_colour, L_blank, L_url>>))
                    @@ (F_0103_txt :> File(<<L_hello>>))
                    @@ (F_0104 :> Unreadable)
                    @@ (F_0105 :> File(<<>>))
                    @@ (F_notes :> File(<<L_world>>)) ))
     @@ ("#b" :> Dir(F_0102 :> File(<<L_hello, L_world>>)))
     @@ ("README" :> NotADir) ),
     mam |-> LogBase(("#a" :> Dir(F_bare_0102 :> File(<<L_world, L_join>>))))]

Trees == {ScenarioTree, MixedTree}

\* sorted(os.listdir(log_base)): the channel names of the model in code point order
ChannelOrder == <<"#a", "#b", "README">>

SortedNames(S) == SelectSeq(ChannelOrder, LAMBDA c : c \in S)

---------------------------------------------------------------------------
(* The store, as the importer's connection sees it *)

MaxRuns == 2

\* the rows of log_entries the importer's cursor reads: the committed rows and
\* the rows of its own open transaction
Visible == log_entries \o txn.entries

Row(n, c, d, i, text) ==
    [network_id |-> n, channel_name |-> c, log_date |-> d, line_number |-> i, content |-> text]

\* SELECT COUNT(*) FROM log_entries WHERE network_id = ? AND channel_name = ? AND log_date = ?
CountEntries(rows, n, c, d) ==
    Cardinality({ i \in 1..Len(rows) :
        rows[i].network_id = n /\ rows[i].channel_name = c /\ rows[i].log_date = d })

\* INSERT OR REPLACE INTO networks (id, display_name)
UpsertNetwork(tbl, n) == (n :> DisplayName(n)) @@ tbl

\* a plain INSERT on a table without the UNIQUE constraint
InsertOrIgnoreChannel_NoIgnore(rows, n, c) == Append(rows, <<n, c>>)

\* INSERT OR IGNORE INTO channels (network_id, name), under UNIQUE(network_id, name)
InsertOrIgnoreChannel(rows, n, c) ==
    IF \E i \in 1..Len(rows) : rows[i] = <<n, c>> THEN rows ELSE Append(rows, <<n, c>>)

AlreadyImported_NeverFound(n, c, d) == FALSE

\* lines 177-185: some entry of (network, channel, date) is already there
AlreadyImported(n, c, d) == CountEntries(Visible, n, c, d) > 0

\* blank lines left out
FileEntries_SkipBlank(n, c, d, lines) ==
    SelectSeq([ i \in 1..Len(lines) |-> Row(n, c, d, i, strip_irc_formatting(RStrip(lines[i]))) ],
              LAMBDA r : r.content # <<>>)

\* numbering from 0: enumerate(lines) without the + 1
FileEntries_FromZero(n, c, d, lines) ==
    [ i \in 1..Len(lines) |-> Row(n, c, d, i - 1, strip_irc_formatting(RStrip(lines[i]))) ]

\* the entries import_network builds from the lines of one file
FileEntries(n, c, d, lines) ==
    [ i \in 1..Len(lines) |-> Row(n, c, d, i, strip_irc_formatting(RStrip(lines[i]))) ]

\* a commit that first deletes the committed entries of the (network,
\* channel, date) it brings new entries for
Commit_ReplaceDates ==
    /\ networks' = txn.networks @@ networks
    /\ channels' = channels \o txn.channels
    /\ log_entries' =
          SelectSeq(log_entries, LAMBDA r :
              ~\E i \in 1..Len(txn.entries) :
                  /\ txn.entries[i].network_id = r.network_id
                  /\ txn.entries[i].channel_name = r.channel_name
                  /\ txn.entries[i].log_date = r.log_date)
          \o txn.entries
    /\ txn' = [networks |-> <<>>, channels |-> <<>>, entries |-> <<>>]

\* conn.commit()
Commit ==
    /\ networks' = txn.networks @@ networks
    /\ channels' = channels \o txn.channels
    /\ log_entries' = log_entries \o txn.entries
    /\ txn' = [networks |-> <<>>, channels |-> <<>>, entries |-> <<>>]

\* what a finished call of import_network leaves in last: its arguments, the
\* value returned, the rows it saw when it started and when it returned, and
\* whether a call for this network had returned before it started; failed is
\* the files whose reading or inserting raised, as <<channel, file, rows
\* inserted before the error>>
Finished(run, ret, after, failed) ==
    [op |-> "import_network", network |-> run.network, force |-> run.force,
     ret |-> ret, before |-> run.before, after |-> after, again |-> run.again,
     failed |-> failed]

\* the rows a file's executemany adds, by their places in the rows the
\* importer's cursor reads: <<first, last>>
Batch(rows, entries) == <<Len(rows) + 1, Len(rows) + Len(entries)>>

\* continue (lines 171, 185, 193) and the end of the loop body: the next file
AfterContinue(files) == Tail(files)

\* break: the channel's other files are left
AfterError_Break(files) == <<>>

\* lines 211-213: except Exception ... continue
AfterError(files) == Tail(files)

---------------------------------------------------------------------------
(* Two import processes on one database file *)

\* no second process: it is not in import_network and has no transaction
NoPeer ==
    [imp |-> [pc |-> "idle"],
     txn |-> [networks |-> <<>>, channels |-> <<>>, entries |-> <<>>]]

\* a connection holds the database's write lock from the first INSERT after
\* a commit (lines 141 and 162 come before every SELECT and every
\* executemany) until conn.commit() or the end of the connection
HoldsLock(i, t) ==
    i.pc = "file" \/ t # [networks |-> <<>>, channels |-> <<>>, entries |-> <<>>]

\* a database without a write lock
PeerHoldsLock_Never == FALSE

\* the other import process has a write transaction open
PeerHoldsLock == HoldsLock(peer.imp, peer.txn)

---------------------------------------------------------------------------
(* import_network(conn, network_id, force), one step per loop iteration *)

\* lines 139-152: the network row, the log directory, the channel listing
ImportNetwork(n, force) ==
    /\ imp.pc = "idle"
    /\ runs.started < MaxRuns
    /\ ~PeerHoldsLock
    /\ runs' = [runs EXCEPT !.started = @ + 1,
                             !.returned = IF fs[n].exists THEN @ ELSE @ \cup {n}]
    /\ txn' = [txn EXCEPT !.networks = UpsertNetwork(@, n)]
    /\ LET run == [network |-> n, force |-> force, before |-> Visible,
                   again |-> n \in runs.returned]
       IN  IF ~fs[n].exists
           THEN /\ imp' = imp
                /\ last' = Finished(run, 0, Visible, {})
           ELSE /\ imp' = [pc |-> "channel", run |-> run, total |-> 0,
                           todo |-> SortedNames(DOMAIN fs[n].entries),
                           channel |-> "", files |-> <<>>,
                           batches |-> {}, failed |-> {}]
                /\ last' = last
    /\ UNCHANGED <<fs, networks, channels, log_entries, resp, main, session, peer, users>>

\* lines 154-165 and 218: the next entry of the log directory, or the return
NextChannel ==
    /\ imp.pc = "channel"
    /\ IF imp.todo = <<>>
       THEN /\ last' = Finished(imp.run, imp.total, Visible, imp.failed)
            /\ imp' = [pc |-> "idle"]
            /\ runs' = [runs EXCEPT !.returned = @ \cup {imp.run.network}]
            /\ txn' = txn
       ELSE LET c == Head(imp.todo)
                entry == fs[imp.run.network].entries[c]
            IN  /\ UNCHANGED <<last, runs>>
                /\ IF ~entry.isdir
                   THEN /\ imp' = [imp EXCEPT !.todo = Tail(@)]
                        /\ txn' = txn
                   ELSE /\ ~PeerHoldsLock
                        /\ txn' = [txn EXCEPT !.channels = Drop(
                                      InsertOrIgnoreChannel(channels \o @, imp.run.network, c),
                                      Len(channels))]
                        /\ imp' = [imp EXCEPT !.pc = "file", !.channel = c,
                                      !.files = SortedStrs({ f \in DOMAIN entry.files :
                                                              EndsWith(f, DotLog) })]
    /\ UNCHANGED <<fs, networks, channels, log_entries, resp, main, session, peer, users>>

\* the loop body on a connection in autocommit mode for its first statement:
\* the first row of the file is committed when it is inserted
ImportFile_Autocommit ==
    /\ imp.pc = "file"
    /\ imp.files # <<>>
    /\ LET n == imp.run.network
           c == imp.channel
           log_file == Head(imp.files)
           log_date == parse_log_date(log_file)
           file == fs[n].entries[c].files[log_file]
           entries == FileEntries(n, c, DateStr(log_date), file.lines)
           skip == \/ log_date = None
                   \/ ~imp.run.force /\ AlreadyImported(n, c, DateStr(log_date))
                   \/ ~file.readable
                   \/ file.lines = <<>>
       IN  IF skip
           THEN /\ imp' = [imp EXCEPT !.files = AfterContinue(@)]
                /\ UNCHANGED <<txn, log_entries>>
           ELSE /\ log_entries' = log_entries \o Take(txn.entries \o entries, 1)
                /\ txn' = [txn EXCEPT !.entries = Drop(@ \o entries, 1)]
                /\ imp' = [imp EXCEPT !.files = AfterContinue(@), !.total = @ + Len(entries),
                                      !.batches = @ \cup {Batch(Visible, entries)}]
    /\ UNCHANGED <<fs, networks, channels, runs, last, resp, main, session, peer, users>>

\* lines 167-213: one log file of the channel
ImportFile ==
    /\ imp.pc = "file"
    /\ imp.files # <<>>
    /\ LET n == imp.run.network
           c == imp.channel
           log_file == Head(imp.files)
           log_date == parse_log_date(log_file)
           file == fs[n].entries[c].files[log_file]
           entries == FileEntries(n, c, DateStr(log_date), file.lines)
           skip == \/ log_date = None
                   \/ ~imp.run.force /\ AlreadyImported(n, c, DateStr(log_date))
                   \/ file.readable /\ file.lines = <<>>
       IN  IF skip
           THEN /\ imp' = [imp EXCEPT !.files = AfterContinue(@)]
                /\ txn' = txn
           ELSE IF ~file.readable
           THEN \* lines 211-213: open() raised
                /\ imp' = [imp EXCEPT !.files = AfterError(@),
                                      !.failed = @ \cup {<<c, log_file, 0>>}]
                /\ txn' = txn
           ELSE /\ txn' = [txn EXCEPT !.entries = @ \o entries]
                /\ imp' = [imp EXCEPT !.files = AfterContinue(@), !.total = @ + Len(entries),
                                      !.batches = @ \cup {Batch(Visible, entries)}]
    /\ UNCHANGED <<fs, networks, channels, log_entries, runs, last, resp, main, session, peer, users>>

\* lines 215-216: the commit after the channel's last file
CommitChannel ==
    /\ imp.pc = "file"
    /\ imp.files = <<>>
    /\ Commit
    /\ imp' = [imp EXCEPT !.pc = "channel", !.todo = Tail(@)]
    /\ UNCHANGED <<fs, runs, last, resp, main, session, peer, users>>

---------------------------------------------------------------------------
(* Faults: an insert that raises, and the death of the import process *)

MaxFaults == 1

\* lines 201-213: executemany raises at row k + 1.  The k rows inserted before
\* it stay in the open transaction (nothing rolls them back), rows_inserted is
\* not added to the total, and the loop goes on with the next file.
InsertFails(k) ==
    /\ imp.pc = "file"
    /\ imp.files # <<>>
    /\ runs.faults < MaxFaults
    /\ LET n == imp.run.network
           c == imp.channel
           log_file == Head(imp.files)
           log_date == parse_log_date(log_file)
           file == fs[n].entries[c].files[log_file]
           entries == FileEntries(n, c, DateStr(log_date), file.lines)
       IN  /\ log_date # None
           /\ imp.run.force \/ ~AlreadyImported(n, c, DateStr(log_date))
           /\ file.readable
           /\ k < Len(entries)
           /\ txn' = [txn EXCEPT !.entries = @ \o Take(entries, k)]
           /\ imp' = [imp EXCEPT !.files = AfterError(@),
                                 !.failed = @ \cup {<<c, log_file, k>>},
                                 !.batches = IF k = 0 THEN @
                                             ELSE @ \cup {Batch(Visible, Take(entries, k))}]
    /\ runs' = [runs EXCEPT !.faults = @ + 1]
    /\ UNCHANGED <<fs, networks, channels, log_entries, last, resp, main, session, peer, users>>

\* the open transaction reaches the tables after all
Rollback_KeepsWritten ==
    /\ networks' = txn.networks @@ networks
    /\ channels' = channels \o txn.channels
    /\ log_entries' = log_entries \o txn.entries
    /\ txn' = [networks |-> <<>>, channels |-> <<>>, entries |-> <<>>]

\* a connection that goes away without commit: its open transaction is undone
Rollback ==
    /\ networks' = networks
    /\ channels' = channels
    /\ log_entries' = log_entries
    /\ txn' = [networks |-> <<>>, channels |-> <<>>, entries |-> <<>>]

\* the import process is killed or dies somewhere inside import_network
Crash ==
    /\ imp.pc # "idle"
    /\ Rollback
    /\ imp' = [pc |-> "idle"]
    /\ runs' = [runs EXCEPT !.crashed = @ + 1]
    /\ last' = [op |-> "crash", network |-> imp.run.network,
                committed |-> log_entries, lost |-> txn.entries]
    /\ UNCHANGED <<fs, resp, main, session, peer, users>>

\* the other import process runs on: imp and txn are the process whose step
\* comes next, peer is the process that waits its turn
Switch ==
    /\ peer' = [imp |-> imp, txn |-> txn]
    /\ imp' = peer.imp
    /\ txn' = peer.txn
    /\ UNCHANGED <<fs, networks, channels, log_entries, runs, last, resp, main, session, users>>

\* lines 141 and 162: the INSERT waits for the write lock the other process
\* holds and raises "database is locked" after the connection's timeout;
\* nothing catches it there and the process ends
DatabaseLocked(n) ==
    /\ PeerHoldsLock
    /\ \/ /\ imp.pc = "idle"
          /\ runs.started < MaxRuns
          /\ runs' = [runs EXCEPT !.started = @ + 1, !.crashed = @ + 1]
          /\ last' = [op |-> "crash", network |-> n,
                      committed |-> log_entries, lost |-> txn.entries]
          /\ Rollback
          /\ UNCHANGED <<fs, imp, resp, main, session, peer, users>>
       \/ /\ imp.pc = "channel"
          /\ imp.todo # <<>>
          /\ fs[imp.run.network].entries[Head(imp.todo)].isdir
          /\ n = imp.run.network
          /\ Crash

---------------------------------------------------------------------------
(* The web application's queries over the committed tables *)

SEARCH_LIMIT == 1000

\* hashlib.sha256(password.encode()).hexdigest(): taken as free of collisions
hash_password(password) == <<"sha256", password>>

\* the users table as init_db leaves it: the admin row, 2FA off, no secret
DefaultUsers ==
    ("admin" :> [id |-> 1, password_hash |-> hash_password(<<"a", "d", "m", "i", "n">>),
                 totp_secret |-> None, totp_enabled |-> 0])

\* the session after a successful login (lines 144-146)
LoggedIn == [logged_in |-> TRUE, username |-> "admin", user_id |-> 1]

\* @login_required: 401 unless the session holds logged_in, else the handler's answer
login_required(op, data, answer) ==
    IF "logged_in" \notin DOMAIN session
    THEN [op |-> op, data |-> data, status |-> 401, error |-> "Not authenticated"]
    ELSE answer

LowerStr(s) == [ i \in 1..Len(s) |-> Lower(s[i]) ]

\* a word character somewhere in the query
IsPlainWord_Unanchored(query) == \E i \in 1..Len(query) : query[i] \in WordChars

\* re.match(r'^\w+$', query): one or more word characters, then the end of
\* the text or a final newline
IsPlainWord(query) ==
    LET n == IF query # <<>> /\ query[Len(query)] = "\n" THEN Len(query) - 1 ELSE Len(query)
    IN  n >= 1 /\ \A i \in 1..n : query[i] \in WordChars

\* text[i..j] is a word of the full-text index: a maximal run of word characters
IsToken(text, i, j) ==
    /\ i <= j
    /\ \A k \in i..j : text[k] \in WordChars
    /\ i = 1 \/ text[i - 1] \notin WordChars
    /\ j = Len(text) \/ text[j + 1] \notin WordChars

\* MATCH(content) AGAINST (word IN BOOLEAN MODE) for one plain word: a word
\* of the content equals it, letter case aside
FullTextMatch(content, word) ==
    \E i \in 1..Len(content) :
        LET j == i + Len(word) - 1
        IN  j <= Len(content) /\ IsToken(content, i, j)
            /\ LowerStr(SubSeq(content, i, j)) = LowerStr(word)

\* text LIKE pattern: % is any run of characters, _ any one character, \ takes
\* the next character literally; letters compare without case (the _ci collation)
RECURSIVE LikeMatch(_, _)
LikeMatch(text, pattern) ==
    IF pattern = <<>> THEN text = <<>>
    ELSE IF pattern[1] = "%"
        THEN LikeMatch(text, Tail(pattern)) \/ (text # <<>> /\ LikeMatch(Tail(text), pattern))
    ELSE IF text = <<>> THEN FALSE
    ELSE IF pattern[1] = "_" THEN LikeMatch(Tail(text), Tail(pattern))
    ELSE IF pattern[1] = "\\" /\ Len(pattern) >= 2
        THEN Lower(text[1]) = Lower(pattern[2]) /\ LikeMatch(Tail(text), Drop(pattern, 2))
    ELSE Lower(text[1]) = Lower(pattern[1]) /\ LikeMatch(Tail(text), Tail(pattern))

\* one condition of the WHERE clause
Clause(col, op, arg) == [col |-> col, op |-> op, arg |-> arg]

Holds(clause, row) ==
    CASE clause.op = "=" /\ clause.col = "network_id"   -> row.network_id = clause.arg
      [] clause.op = "=" /\ clause.col = "channel_name" -> row.channel_name = clause.arg
      [] clause.op = ">="    -> row.log_date >= clause.arg
      [] clause.op = "<="    -> row.log_date <= clause.arg
      [] clause.op = "MATCH" -> FullTextMatch(row.content, clause.arg)
      [] clause.op = "LIKE"  -> LikeMatch(row.content, clause.arg)

\* WHERE c1 AND c2 AND ...
Where(clauses, row) == \A k \in 1..Len(clauses) : Holds(clauses[k], row)

\* the sql text search_logs builds: the network and the match (lines 370-399),
\* then one AND per filter given (lines 401-411)
SearchClauses(use_fulltext, query, network, channel, start_date, end_date) ==
    << Clause("network_id", "=", network),
       IF use_fulltext THEN Clause("content", "MATCH", query)
                       ELSE Clause("content", "LIKE", <<"%">> \o query \o <<"%">>) >>
    \o (IF channel # "" THEN << Clause("channel_name", "=", channel) >> ELSE <<>>)
    \o (IF start_date # 0 THEN << Clause("log_date", ">=", start_date) >> ELSE <<>>)
    \o (IF end_date # 0 THEN << Clause("log_date", "<=", end_date) >> ELSE <<>>)

\* ORDER BY le.log_date ASC, le.line_number ASC
SearchBefore_DateAsc(i, j, tieAsc) ==
    LET a == log_entries[i]
        b == log_entries[j]
    IN  \/ a.log_date < b.log_date
        \/ a.log_date = b.log_date /\ a.line_number < b.line_number
        \/ a.log_date = b.log_date /\ a.line_number = b.line_number
           /\ (IF tieAsc THEN i < j ELSE i > j)

\* ORDER BY le.log_date DESC, le.line_number ASC over row ids; rows equal in
\* both come in an order SQL leaves open: by id, upwards or downwards
SearchBefore(i, j, tieAsc) ==
    LET a == log_entries[i]
        b == log_entries[j]
    IN  \/ a.log_date > b.log_date
        \/ a.log_date = b.log_date /\ a.line_number < b.line_number
        \/ a.log_date = b.log_date /\ a.line_number = b.line_number
           /\ (IF tieAsc THEN i < j ELSE i > j)

Ids == [ i \in 1..Len(log_entries) |-> i ]

\* ... LIMIT n
Limit(rows, n) == IF Len(rows) > n THEN Take(rows, n) ELSE rows

\* the rows cursor.fetchall() returns in search_logs, as row ids
SearchRows(clauses, tieAsc) ==
    Limit(SortSeq(SelectSeq(Ids, LAMBDA i :
                     /\ log_entries[i].network_id \in DOMAIN networks   \* JOIN networks n
                     /\ Where(clauses, log_entries[i])),
                  LAMBDA i, j : SearchBefore(i, j, tieAsc)),
          SEARCH_LIMIT)

\* one element of 'results'; id is the row's primary key, kept to tell rows apart
SearchResult(i) ==
    LET row == log_entries[i]
    IN  [id |-> i, network_id |-> row.network_id, network |-> networks[row.network_id],
         channel |-> row.channel_name, date |-> row.log_date, line |-> row.line_number,
         content |-> row.content]

\* truncated: len(results) >= 1000
Truncated(results) == Len(results) >= SEARCH_LIMIT

\* the handler without the test of the query (lines 358-359)
search_logs_NoQueryCheck(data, tieAsc) ==
    LET query == Strip(data.query)
        use_fulltext == IsPlainWord(query)
        rows == SearchRows(SearchClauses(use_fulltext, query, data.network, data.channel,
                                         data.start_date, data.end_date), tieAsc)
        results == [ k \in 1..Len(rows) |-> SearchResult(rows[k]) ]
    IN  IF data.network = "" THEN [op |-> "search", data |-> data, status |-> 400,
                                   error |-> "Network required", queried |-> FALSE]
        ELSE [op |-> "search", data |-> data, status |-> 200, queried |-> TRUE,
              use_fulltext |-> use_fulltext, results |-> results,
              total |-> Len(results), truncated |-> Truncated(results)]

\* POST /api/search in a logged-in session; queried is whether the handler
\* came to get_db() and cursor.execute (lines 363, 415)
search_logs(data, tieAsc) ==
    LET query == Strip(data.query)
        use_fulltext == IsPlainWord(query)
        rows == SearchRows(SearchClauses(use_fulltext, query, data.network, data.channel,
                                         data.start_date, data.end_date), tieAsc)
        results == [ k \in 1..Len(rows) |-> SearchResult(rows[k]) ]
    IN  IF query = <<>> THEN [op |-> "search", data |-> data, status |-> 400,
                              error |-> "Query required", queried |-> FALSE]
        ELSE IF data.network = "" THEN [op |-> "search", data |-> data, status |-> 400,
                                        error |-> "Network required", queried |-> FALSE]
        ELSE [op |-> "search", data |-> data, status |-> 200, queried |-> TRUE,
              use_fulltext |-> use_fulltext, results |-> results,
              total |-> Len(results), truncated |-> Truncated(results)]

\* a handler that keeps the query it was sent as a row of log_entries
SearchLogs_LogsQuery(data, tieAsc) ==
    /\ resp.op = "none"
    /\ resp' = login_required("search", data, search_logs(data, tieAsc))
    /\ log_entries' = log_entries \o <<Row(data.network, "", 0, 0, data.query)>>
    /\ UNCHANGED <<fs, networks, channels, txn, imp, runs, last, main, session, peer, users>>

SearchLogs(data, tieAsc) ==
    /\ resp.op = "none"
    /\ resp' = login_required("search", data, search_logs(data, tieAsc))
    /\ UNCHANGED <<fs, networks, channels, log_entries, txn, imp, runs, last, main, session, peer, users>>

\* data.get(key, default)
Get(opt, default) == IF opt = <<>> THEN default ELSE opt[1]

Max_Second(a, b) == b

Max(a, b) == IF a >= b THEN a ELSE b

\* ORDER BY line_number over row ids
ContextBefore(i, j, tieAsc) ==
    \/ log_entries[i].line_number < log_entries[j].line_number
    \/ log_entries[i].line_number = log_entries[j].line_number
       /\ (IF tieAsc THEN i < j ELSE i > j)

\* lines 458-464: the rows of the window
ContextRows(network, channel, log_date, start_line, end_line, tieAsc) ==
    SortSeq(SelectSeq(Ids, LAMBDA i :
                /\ log_entries[i].network_id = network
                /\ log_entries[i].channel_name = channel
                /\ log_entries[i].log_date = log_date
                /\ log_entries[i].line_number >= start_line
                /\ log_entries[i].line_number <= end_line),
            LAMBDA i, j : ContextBefore(i, j, tieAsc))

\* is_match for every line from the center line on
ContextEntry_FromLine(i, center_line) ==
    [id |-> i, line |-> log_entries[i].line_number, content |-> log_entries[i].content,
     is_match |-> log_entries[i].line_number >= center_line]

\* one element of 'context'
ContextEntry(i, center_line) ==
    [id |-> i, line |-> log_entries[i].line_number, content |-> log_entries[i].content,
     is_match |-> log_entries[i].line_number = center_line]

\* POST /api/context in a logged-in session
get_context(data, tieAsc) ==
    LET center_line == data.line
        lines_before == Get(data.lines_before, 2)
        lines_after == Get(data.lines_after, 2)
        start_line == Max(1, center_line - lines_before)
        end_line == center_line + lines_after
        rows == ContextRows(data.network, data.channel, data.date, start_line, end_line, tieAsc)
        total_lines == CountEntries(log_entries, data.network, data.channel, data.date)
    IN  IF data.network = "" \/ data.channel = "" \/ data.date = 0 \/ center_line = 0
        THEN [op |-> "context", data |-> data, status |-> 400,
              error |-> "Missing required parameters"]
        ELSE [op |-> "context", data |-> data, status |-> 200,
              context |-> [ k \in 1..Len(rows) |-> ContextEntry(rows[k], center_line) ],
              start_line |-> start_line, end_line |-> end_line,
              total_lines |-> total_lines,
              can_expand_up |-> start_line > 1,
              can_expand_down |-> end_line < total_lines]

GetContext(data, tieAsc) ==
    /\ resp.op = "none"
    /\ resp' = login_required("context", data, get_context(data, tieAsc))
    /\ UNCHANGED <<fs, networks, channels, log_entries, txn, imp, runs, last, main, session, peer, users>>

\* the response leaves; the model follows one web request at a time (requests
\* only read the tables and do not affect one another)
SendResponse ==
    /\ resp.op \in {"search", "context", "networks", "channels", "stats", "login", "logout",
                    "change_password", "setup_2fa", "enable_2fa", "disable_2fa"}
    /\ resp' = [op |-> "none"]
    /\ UNCHANGED <<fs, networks, channels, log_entries, txn, imp, runs, last, main, session, peer, users>>

\* the requests of the model
Q_hello ==
    << " ", "h", "e", "l", "l", "o", " " >>

Q_hello_world ==
    << "h", "e", "l", "l", "o", " ", "w", "o", "r", "l", "d" >>

Q_a_pct_b ==
    << "a", "%", "b" >>

Q_blank ==
    << " ", " " >>

Q_empty == <<>>

Q_a_b ==
    << "a", "_", "b" >>

Q_a_b_slash ==
    << "	", "a", "_", "b", "/" >>

D_0101 == DateStr(<<2025, 1, 1>>)

D_0102 == DateStr(<<2025, 1, 2>>)

SearchRequests ==
    [query : {Q_hello, Q_hello_world, Q_a_pct_b, Q_a_b, Q_a_b_slash, Q_blank, Q_empty},
     network : {"foo", "mam", ""},
     channel : {"", "#a"}, start_date : {0, D_0102}, end_date : {0, D_0102}]

ContextRequests ==
    [network : {"foo", ""}, channel : {"#a"}, date : {D_0101, D_0102}, line : 0..3,
     lines_before : {<<>>, <<0>>}, lines_after : {<<>>, <<0>>}]

Init ==
    /\ fs \in Trees
    /\ networks = <<>>
    /\ channels = <<>>
    /\ log_entries = <<>>
    /\ txn = [networks |-> <<>>, channels |-> <<>>, entries |-> <<>>]
    /\ imp = [pc |-> "idle"]
    /\ runs = [started |-> 0, returned |-> {}, crashed |-> 0, faults |-> 0]
    /\ last = [op |-> "none"]
    /\ resp = [op |-> "none"]
    /\ main = [pc |-> "none"]
    /\ session = LoggedIn
    /\ peer = NoPeer
    /\ users = DefaultUsers

Next ==
    \/ \E n \in NetworkIds, force \in BOOLEAN : ImportNetwork(n, force)
    \/ NextChannel
    \/ ImportFile
    \/ CommitChannel
    \/ \E data \in SearchRequests, tieAsc \in BOOLEAN : SearchLogs(data, tieAsc)
    \/ \E data \in ContextRequests, tieAsc \in BOOLEAN : GetContext(data, tieAsc)
    \/ SendResponse

Spec == Init /\ [][Next]_vars

\* the importer alone, with inserts that raise and with crashes
\* the number of rows inserted before the error; the files of the trees have up to 3 lines
FaultPoints == 0..2

NextFault ==
    \/ \E n \in NetworkIds, force \in BOOLEAN : ImportNetwork(n, force)
    \/ NextChannel
    \/ ImportFile
    \/ CommitChannel
    \/ \E k \in FaultPoints : InsertFails(k)
    \/ Crash

SpecFault == Init /\ [][NextFault]_vars

---------------------------------------------------------------------------
(* main(): the import process from its start to its exit.  main.base is     *)
(* whether ZNC_BASE_PATH exists, main.db whether the file DB_PATH exists.   *)

\* the first network has no log directory, the second has one
MissingFirstTree ==
    [foo |-> NoLogBase,
     mam |-> LogBase(("#a" :> Dir(F_bare_0102 :> File(<<L_world, L_join>>))))]

\* nothing under a base directory that does not exist
NoTree == [foo |-> NoLogBase, mam |-> NoLogBase]

\* sorted(networks) for the directories of ZNC_BASE_PATH
SortedNetworks == <<"foo", "mam">>

\* --network (none: "") and --force
MainArgs == [network : {"", "foo", "mam"}, force : BOOLEAN]

BasePathMissing_Never(m) == FALSE

\* line 226: not os.path.exists(ZNC_BASE_PATH)
BasePathMissing(m) == ~m.base

\* lines 226-242: the base path check, init_db() if there is no database
\* file, get_db(), the list of networks
MainStart ==
    /\ main.pc = "start"
    /\ IF BasePathMissing(main)
       THEN main' = [main EXCEPT !.pc = "exited", !.status = 1]
       ELSE main' = [main EXCEPT !.pc = "loop", !.inited = ~main.db, !.db = TRUE,
                                 !.opened = TRUE,
                                 !.networks = IF main.args.network # ""
                                              THEN <<main.args.network>> ELSE SortedNetworks]
    /\ UNCHANGED <<fs, networks, channels, log_entries, txn, imp, runs, last, resp, session, peer, users>>

\* lines 248-249: the call of import_network for the next network of the list
MainCall ==
    /\ main.pc = "loop"
    /\ runs.started < Len(main.networks)
    /\ ImportNetwork(main.networks[runs.started + 1], main.args.force)

\* lines 253-276: the statistics, conn.close() and the normal exit; what is
\* uncommitted on the connection goes with it
MainFinish ==
    /\ main.pc = "loop"
    /\ imp.pc = "idle"
    /\ runs.started = Len(main.networks)
    /\ Rollback
    /\ main' = [main EXCEPT !.pc = "done", !.status = 0, !.opened = FALSE]
    /\ UNCHANGED <<fs, imp, runs, last, resp, session, peer, users>>

InitMain ==
    /\ networks = <<>>
    /\ channels = <<>>
    /\ log_entries = <<>>
    /\ txn = [networks |-> <<>>, channels |-> <<>>, entries |-> <<>>]
    /\ imp = [pc |-> "idle"]
    /\ runs = [started |-> 0, returned |-> {}, crashed |-> 0, faults |-> 0]
    /\ last = [op |-> "none"]
    /\ resp = [op |-> "none"]
    /\ session = LoggedIn
    /\ peer = NoPeer
    /\ users = DefaultUsers
    /\ \E base, db \in BOOLEAN, args \in MainArgs :
          /\ main = [pc |-> "start", base |-> base, db |-> db, args |-> args,
                     networks |-> <<>>, status |-> 0, inited |-> FALSE, opened |-> FALSE]
          /\ fs \in (IF base THEN Trees \cup {MissingFirstTree} ELSE {NoTree})

NextMain ==
    \/ MainStart
    \/ MainCall
    \/ NextChannel
    \/ ImportFile
    \/ CommitChannel
    \/ MainFinish

SpecMain == InitMain /\ [][NextMain]_vars

---------------------------------------------------------------------------
(* Imports of one file of one line, for all short lines over a few         *)
(* characters: formatting codes, colour arguments, a letter, a blank.      *)

MaxLineLen == 3

LineChars == {X03, X02, X1D, "1", ",", "a", " "}

\* the lines readlines() can return: some characters and a line terminator,
\* or (the last line of a file) at least one character and none
Lines ==
    LET bodies == UNION { [1..k -> LineChars] : k \in 0..MaxLineLen }
    IN  { b \o <<"\n">> : b \in bodies } \cup (bodies \ {<<>>})

LineTree(line) ==
    [foo |-> LogBase(("#a" :> Dir(F_0101 :> File(<<L_hello, line>>)))),
     mam |-> NoLogBase]

InitLine ==
    /\ fs \in { LineTree(line) : line \in Lines }
    /\ networks = <<>>
    /\ channels = <<>>
    /\ log_entries = <<>>
    /\ txn = [networks |-> <<>>, channels |-> <<>>, entries |-> <<>>]
    /\ imp = [pc |-> "idle"]
    /\ runs = [started |-> MaxRuns - 1, returned |-> {}, crashed |-> 0, faults |-> 0]
    /\ last = [op |-> "none"]
    /\ resp = [op |-> "none"]
    /\ main = [pc |-> "none"]
    /\ session = LoggedIn
    /\ peer = NoPeer
    /\ users = DefaultUsers

NextLine ==
    \/ \E force \in BOOLEAN : ImportNetwork("foo", force)
    \/ NextChannel
    \/ ImportFile
    \/ CommitChannel

SpecLine == InitLine /\ [][NextLine]_vars

---------------------------------------------------------------------------
(* Imports of a tree in which every file can be read and two channels hold *)
(* two files each whose names parse to one date.                           *)

SameDateTree ==
    [foo |-> LogBase(
        ("#a" :> Dir(  (F_0101 :> File(<<L_world, L_axb>>))
                    @@ (F_chan_0101 :> File(<<L_hello>>))
                    @@ (F_0105 :> File(<<L_join>>)) ))
     @@ ("#b" :> Dir(  (F_0102 :> File(<<L_hello, L_world>>))
                    @@ (F_bare_0102 :> File(<<L_url, L_axb, L_join>>)) )) ),
     mam |-> LogBase(("#a" :> Dir(F_bare_0102 :> File(<<L_world, L_join>>))))]

InitDates ==
    /\ fs = SameDateTree
    /\ networks = <<>>
    /\ channels = <<>>
    /\ log_entries = <<>>
    /\ txn = [networks |-> <<>>, channels |-> <<>>, entries |-> <<>>]
    /\ imp = [pc |-> "idle"]
    /\ runs = [started |-> 0, returned |-> {}, crashed |-> 0, faults |-> 0]
    /\ last = [op |-> "none"]
    /\ resp = [op |-> "none"]
    /\ main = [pc |-> "none"]
    /\ session = LoggedIn
    /\ peer = NoPeer
    /\ users = DefaultUsers

NextDates ==
    \/ \E n \in NetworkIds, force \in BOOLEAN : ImportNetwork(n, force)
    \/ NextChannel
    \/ ImportFile
    \/ CommitChannel

SpecDates == InitDates /\ [][NextDates]_vars

---------------------------------------------------------------------------
(* Two import processes started for network "foo" without --force on the   *)
(* tree above, their steps interleaved in every order.                     *)

NextPair ==
    \/ ImportNetwork("foo", FALSE)
    \/ NextChannel
    \/ ImportFile
    \/ CommitChannel
    \/ Switch
    \/ DatabaseLocked("foo")

SpecPair == InitDates /\ [][NextPair]_vars

---------------------------------------------------------------------------
(* Searches over a store with more rows than the LIMIT: the tables as      *)
(* import_network leaves them for "foo" with two long files in channel #a  *)
(* and a short one in channel #b, and "mam" with one short file.           *)

L_hello_bang ==
    << "h", "e", "l", "l", "o", "!", "\n" >>

Q_lo_bang ==
    << "l", "o", "!" >>

Q_zzz ==
    << "z", "z", "z" >>

Q_hello_plain ==
    << "h", "e", "l", "l", "o" >>

\* lines per long file: two files of LongFile lines fill the LIMIT exactly
LongFile == SEARCH_LIMIT \div 2

LongTree(len) ==
    [foo |-> LogBase(
        ("#a" :> Dir(  (F_0101 :> File([ i \in 1..len |-> L_hello_bang ]))
                    @@ (F_0102 :> File([ i \in 1..len |-> L_hello_bang ]))))
     @@ ("#b" :> Dir(F_0102 :> File(<<L_hello, L_hello_bang, L_world, L_axb, L_hello_bang>>)))),
     mam |-> LogBase(("#a" :> Dir(F_0102 :> File(<<L_hello_bang, L_axb>>))))]

\* the rows import_network inserts for one file of the tree
TreeEntries(tree, n, c, f) ==
    FileEntries(n, c, DateStr(parse_log_date(f)), tree[n].entries[c].files[f].lines)

CapRequests ==
    [query : {Q_hello_plain, Q_lo_bang, Q_zzz}, network : {"foo", "mam"},
     channel : {"", "#a", "#b"}, start_date : {0, D_0102}, end_date : {0, D_0101, D_0102}]

InitCap ==
    /\ fs \in { LongTree(len) : len \in (LongFile - 1)..(LongFile + 1) }
    /\ networks = UpsertNetwork(UpsertNetwork(<<>>, "foo"), "mam")
    /\ channels = << <<"foo", "#a">>, <<"foo", "#b">>, <<"mam", "#a">> >>
    /\ log_entries = TreeEntries(fs, "foo", "#a", F_0101) \o TreeEntries(fs, "foo", "#a", F_0102)
                     \o TreeEntries(fs, "foo", "#b", F_0102) \o TreeEntries(fs, "mam", "#a", F_0102)
    /\ txn = [networks |-> <<>>, channels |-> <<>>, entries |-> <<>>]
    /\ imp = [pc |-> "idle"]
    /\ runs = [started |-> MaxRuns, returned |-> {"foo", "mam"}, crashed |-> 0, faults |-> 0]
    /\ last = [op |-> "none"]
    /\ resp = [op |-> "none"]
    /\ main = [pc |-> "none"]
    /\ session = LoggedIn
    /\ peer = NoPeer
    /\ users = DefaultUsers

NextCap ==
    \/ \E data \in CapRequests, tieAsc \in BOOLEAN : SearchLogs(data, tieAsc)
    \/ SendResponse

SpecCap == InitCap /\ [][NextCap]_vars

---------------------------------------------------------------------------
(* The file names parse_log_date is applied to: a prefix, a year, a month *)
(* and a day with or without dashes, and ".log" at the end (import_network *)
(* passes only names that end so) and perhaps in the middle.               *)

NamePrefixes == { <<>>, <<"_">>, <<"c", "h", "a", "n", "_">>, <<"a", "_", "b", "_">>, <<"x">> }

NameYears == { <<"2", "0", "2", "5">>, <<"2", "0", "2", "4">>, <<"0", "0", "0", "0">>, <<"2", "0", "2">> }

NameMonths == { <<"0", "1">>, <<"1">>, <<"0", "2">>, <<"1", "2">>, <<"1", "3">> }

NameDays == { <<"0", "1">>, <<"5">>, <<"2", "9">>, <<"3", "1">>, <<" ", "7">>, <<"0", "1", "1">> }

NameSeps == { <<"-">>, <<>> }

NameMiddles == { <<>>, DotLog }

NameSuffixes == { DotLog, <<"_">> \o DotLog }

FileNames ==
    { pre \o y \o sep \o m \o mid \o sep \o d \o suf :
        pre \in NamePrefixes, y \in NameYears, sep \in NameSeps, m \in NameMonths,
        mid \in NameMiddles, d \in NameDays, suf \in NameSuffixes }

InitParse ==
    /\ fs = <<>>
    /\ networks = <<>>
    /\ channels = <<>>
    /\ log_entries = <<>>
    /\ txn = [networks |-> <<>>, channels |-> <<>>, entries |-> <<>>]
    /\ imp = [pc |-> "idle"]
    /\ runs = [started |-> 0, returned |-> {}, crashed |-> 0, faults |-> 0]
    /\ last = [op |-> "none"]
    /\ \E f \in FileNames : resp = [op |-> "filename", filename |-> f]
    /\ main = [pc |-> "none"]
    /\ session = LoggedIn
    /\ peer = NoPeer
    /\ users = DefaultUsers

\* one call of parse_log_date(filename)
ParseLogDate ==
    /\ resp.op = "filename"
    /\ resp' = [op |-> "parse_log_date", filename |-> resp.filename,
                result |-> parse_log_date(resp.filename)]
    /\ UNCHANGED <<fs, networks, channels, log_entries, txn, imp, runs, last, main, session, peer, users>>

NextParse == ParseLogDate

SpecParse == InitParse /\ [][NextParse]_vars

---------------------------------------------------------------------------
(* Logging in, the user's password and 2FA, and the requests that need a   *)
(* session, over the tables of one imported file.  The web application's   *)
(* users table and the one user_admin.py writes are taken as one table.    *)

P_admin == <<"a", "d", "m", "i", "n">>

P_short == <<"a", "b", "c">>

P_new == <<"s", "3", "c", "r", "e", "t", "p", "w">>

Passwords == {<<>>, P_admin, P_short, P_new}

\* pyotp.random_base32(): the secrets of the model
Secrets == {<<"S1">>, <<"S2">>}

\* the code an authenticator that holds the secret shows now
Code(secret) == <<"totp", secret>>

\* no code, the codes of the secrets, and a code of no secret
Codes == {<<>>} \cup { Code(s) : s \in Secrets } \cup {Code(<<"S0">>)}

\* a check that takes every code
Verify_AnyCode(secret, code) == TRUE

\* pyotp.TOTP(secret).verify(code, valid_window=1)
Verify(secret, code) == code = Code(secret)

\* SELECT ... FROM users WHERE id = session['user_id']: the usernames found
SessionUsers == { u \in DOMAIN users : users[u].id = session.user_id }

NotAuthenticated(op) == [op |-> op, status |-> 401, error |-> "Not authenticated"]

\* POST /api/login, lines 107-148: the response; success is whether the
\* handler came to set the session
login(data) ==
    IF data.username = "" \/ data.password = <<>>
    THEN [op |-> "login", data |-> data, status |-> 400, success |-> FALSE,
          error |-> "Username and password required"]
    ELSE IF data.username \notin DOMAIN users
    THEN [op |-> "login", data |-> data, status |-> 401, success |-> FALSE,
          error |-> "Invalid credentials"]
    ELSE LET user == users[data.username]
         IN  IF hash_password(data.password) # user.password_hash
             THEN [op |-> "login", data |-> data, status |-> 401, success |-> FALSE,
                   error |-> "Invalid credentials"]
             ELSE IF user.totp_enabled = 1 /\ data.totp_code = <<>>
             THEN [op |-> "login", data |-> data, status |-> 200, success |-> FALSE,
                   requires_2fa |-> TRUE]
             ELSE IF user.totp_enabled = 1 /\ ~Verify(user.totp_secret, data.totp_code)
             THEN [op |-> "login", data |-> data, status |-> 401, success |-> FALSE,
                   error |-> "Invalid 2FA code"]
             ELSE [op |-> "login", data |-> data, status |-> 200, success |-> TRUE]

Login(data) ==
    /\ resp.op = "none"
    /\ resp' = login(data)
    /\ session' = IF login(data).success
                  THEN [logged_in |-> TRUE, username |-> data.username,
                        user_id |-> users[data.username].id]
                  ELSE session
    /\ UNCHANGED <<fs, networks, channels, log_entries, txn, imp, runs, last, main, peer, users>>

\* POST /api/logout, lines 150-153: session.clear()
Logout ==
    /\ resp.op = "none"
    /\ resp' = [op |-> "logout", status |-> 200]
    /\ session' = <<>>
    /\ UNCHANGED <<fs, networks, channels, log_entries, txn, imp, runs, last, main, peer, users>>

\* POST /api/user/password, lines 174-204
ChangePassword(data) ==
    /\ resp.op = "none"
    /\ IF "logged_in" \notin DOMAIN session
       THEN resp' = NotAuthenticated("change_password") /\ users' = users
       ELSE IF data.current_password = <<>> \/ data.new_password = <<>>
       THEN /\ resp' = [op |-> "change_password", status |-> 400,
                        error |-> "Current and new password required"]
            /\ users' = users
       ELSE IF Len(data.new_password) < 8
       THEN /\ resp' = [op |-> "change_password", status |-> 400,
                        error |-> "New password must be at least 8 characters"]
            /\ users' = users
       ELSE IF \A u \in SessionUsers :
                  hash_password(data.current_password) # users[u].password_hash
       THEN /\ resp' = [op |-> "change_password", status |-> 401,
                        error |-> "Current password is incorrect"]
            /\ users' = users
       ELSE /\ resp' = [op |-> "change_password", status |-> 200]
            /\ users' = [ u \in DOMAIN users |->
                            IF u \in SessionUsers
                            THEN [users[u] EXCEPT !.password_hash =
                                                     hash_password(data.new_password)]
                            ELSE users[u] ]
    /\ UNCHANGED <<fs, networks, channels, log_entries, txn, imp, runs, last, main, session, peer>>

\* POST /api/user/2fa/setup, lines 221-247: a fresh secret is stored at once
Setup2FA(secret) ==
    /\ resp.op = "none"
    /\ IF "logged_in" \notin DOMAIN session
       THEN resp' = NotAuthenticated("setup_2fa") /\ users' = users
       ELSE /\ resp' = [op |-> "setup_2fa", status |-> 200, secret |-> secret]
            /\ users' = [ u \in DOMAIN users |->
                            IF u \in SessionUsers
                            THEN [users[u] EXCEPT !.totp_secret = secret]
                            ELSE users[u] ]
    /\ UNCHANGED <<fs, networks, channels, log_entries, txn, imp, runs, last, main, session, peer>>

\* POST /api/user/2fa/enable, lines 250-279
Enable2FA(code) ==
    /\ resp.op = "none"
    /\ IF "logged_in" \notin DOMAIN session
       THEN resp' = NotAuthenticated("enable_2fa") /\ users' = users
       ELSE IF code = <<>>
       THEN /\ resp' = [op |-> "enable_2fa", status |-> 400,
                        error |-> "Verification code required"]
            /\ users' = users
       ELSE IF \A u \in SessionUsers : users[u].totp_secret = None
       THEN /\ resp' = [op |-> "enable_2fa", status |-> 400,
                        error |-> "Please setup 2FA first"]
            /\ users' = users
       ELSE IF \A u \in SessionUsers : ~Verify(users[u].totp_secret, code)
       THEN /\ resp' = [op |-> "enable_2fa", status |-> 401,
                        error |-> "Invalid verification code"]
            /\ users' = users
       ELSE /\ resp' = [op |-> "enable_2fa", status |-> 200]
            /\ users' = [ u \in DOMAIN users |->
                            IF u \in SessionUsers
                            THEN [users[u] EXCEPT !.totp_enabled = 1]
                            ELSE users[u] ]
    /\ UNCHANGED <<fs, networks, channels, log_entries, txn, imp, runs, last, main, session, peer>>

\* POST /api/user/2fa/disable, lines 282-309
Disable2FA(password) ==
    /\ resp.op = "none"
    /\ IF "logged_in" \notin DOMAIN session
       THEN resp' = NotAuthenticated("disable_2fa") /\ users' = users
       ELSE IF password = <<>>
       THEN /\ resp' = [op |-> "disable_2fa", status |-> 400, error |-> "Password required"]
            /\ users' = users
       ELSE IF \A u \in SessionUsers : hash_password(password) # users[u].password_hash
       THEN /\ resp' = [op |-> "disable_2fa", status |-> 401, error |-> "Invalid password"]
            /\ users' = users
       ELSE /\ resp' = [op |-> "disable_2fa", status |-> 200]
            /\ users' = [ u \in DOMAIN users |->
                            IF u \in SessionUsers
                            THEN [users[u] EXCEPT !.totp_enabled = 0, !.totp_secret = None]
                            ELSE users[u] ]
    /\ UNCHANGED <<fs, networks, channels, log_entries, txn, imp, runs, last, main, session, peer>>

\* user_admin.py disable_2fa(username), lines 173-214, for a user whose 2FA
\* is enabled (for any other it changes nothing)
CliDisable2FA(username) ==
    /\ username \in DOMAIN users
    /\ users[username].totp_enabled = 1
    /\ users' = [users EXCEPT ![username].totp_enabled = 0, ![username].totp_secret = None]
    /\ UNCHANGED <<fs, networks, channels, log_entries, txn, imp, runs, last, resp, main,
                   session, peer>>

\* user_admin.py reset_password(username), lines 123-171, with the password
\* that passed the length and confirmation prompts
CliResetPassword(username, password) ==
    /\ username \in DOMAIN users
    /\ Len(password) >= 8
    /\ users' = [users EXCEPT ![username].password_hash = hash_password(password)]
    /\ UNCHANGED <<fs, networks, channels, log_entries, txn, imp, runs, last, resp, main,
                   session, peer>>

\* ORDER BY n.display_name, for the networks of the model
NetworkOrder == <<"foo", "mam">>

\* GET /api/networks, lines 314-328
get_networks ==
    [op |-> "networks", status |-> 200,
     networks |-> LET ids == SelectSeq(NetworkOrder, LAMBDA n :
                                 /\ n \in DOMAIN networks
                                 /\ \E i \in 1..Len(log_entries) : log_entries[i].network_id = n)
                  IN  [ k \in 1..Len(ids) |-> [id |-> ids[k], name |-> networks[ids[k]]] ]]

\* channel_name LIKE '#%', for the channel names of the model
IsHashName(c) == c \in {"#a", "#b"}

\* GET /api/channels/<network>, lines 331-345
get_channels(network) ==
    [op |-> "channels", network |-> network, status |-> 200,
     channels |-> SelectSeq(ChannelOrder, LAMBDA c :
                     /\ IsHashName(c)
                     /\ \E i \in 1..Len(log_entries) :
                           /\ log_entries[i].network_id = network
                           /\ log_entries[i].channel_name = c)]

\* GET /api/stats, lines 490-527: the counts
get_stats ==
    [op |-> "stats", status |-> 200,
     total_entries |-> Len(log_entries),
     network_count |-> Cardinality({ log_entries[i].network_id : i \in 1..Len(log_entries) }),
     channel_count |-> Cardinality({ c \in { log_entries[i].channel_name :
                                               i \in 1..Len(log_entries) } : IsHashName(c) })]

\* @login_required on the handlers without a request body
Protected(op, answer) ==
    IF "logged_in" \notin DOMAIN session THEN NotAuthenticated(op) ELSE answer

GetNetworks ==
    /\ resp.op = "none"
    /\ resp' = Protected("networks", get_networks)
    /\ UNCHANGED <<fs, networks, channels, log_entries, txn, imp, runs, last, main, session,
                   peer, users>>

GetChannels(network) ==
    /\ resp.op = "none"
    /\ resp' = Protected("channels", get_channels(network))
    /\ UNCHANGED <<fs, networks, channels, log_entries, txn, imp, runs, last, main, session,
                   peer, users>>

GetStats ==
    /\ resp.op = "none"
    /\ resp' = Protected("stats", get_stats)
    /\ UNCHANGED <<fs, networks, channels, log_entries, txn, imp, runs, last, main, session,
                   peer, users>>

LoginRequests ==
    [username : {"", "admin", "bob"}, password : {<<>>, P_admin, P_new}, totp_code : Codes]

PasswordRequests ==
    [current_password : {<<>>, P_admin, P_new}, new_password : {<<>>, P_short, P_new}]

AuthSearchRequests ==
    [query : {Q_hello, Q_empty}, network : {"foo"}, channel : {""},
     start_date : {0}, end_date : {0}]

AuthContextRequests ==
    [network : {"foo"}, channel : {"#a"}, date : {D_0101}, line : {0, 2},
     lines_before : {<<>>}, lines_after : {<<>>}]

InitAuth ==
    /\ fs = ScenarioTree
    /\ networks = UpsertNetwork(<<>>, "foo")
    /\ channels = << <<"foo", "#a">> >>
    /\ log_entries = TreeEntries(fs, "foo", "#a", F_0101)
    /\ txn = [networks |-> <<>>, channels |-> <<>>, entries |-> <<>>]
    /\ imp = [pc |-> "idle"]
    /\ runs = [started |-> 1, returned |-> {"foo"}, crashed |-> 0, faults |-> 0]
    /\ last = [op |-> "none"]
    /\ resp = [op |-> "none"]
    /\ main = [pc |-> "none"]
    /\ session = <<>>
    /\ peer = NoPeer
    /\ users = DefaultUsers

NextAuth ==
    \/ \E data \in LoginRequests : Login(data)
    \/ Logout
    \/ \E data \in PasswordRequests : ChangePassword(data)
    \/ \E secret \in Secrets : Setup2FA(secret)
    \/ \E code \in Codes : Enable2FA(code)
    \/ \E password \in Passwords : Disable2FA(password)
    \/ CliDisable2FA("admin")
    \/ \E password \in Passwords : CliResetPassword("admin", password)
    \/ \E data \in AuthSearchRequests, tieAsc \in BOOLEAN : SearchLogs(data, tieAsc)
    \/ \E data \in AuthContextRequests, tieAsc \in BOOLEAN : GetContext(data, tieAsc)
    \/ GetNetworks
    \/ \E n \in NetworkIds : GetChannels(n)
    \/ GetStats
    \/ SendResponse

SpecAuth == InitAuth /\ [][NextAuth]_vars

---------------------------------------------------------------------------
(* Claims *)

Triples(rows) ==
    { <<rows[i].network_id, rows[i].channel_name, rows[i].log_date>> : i \in 1..Len(rows) }

\* C1: a call of import_network without force, made after a call for the same
\* network has returned, returns 0 and leaves the number of entries of every
\* (network, channel, date) as it found it.
C1_ReimportIsNoOp ==
    (last.op = "import_network" /\ ~last.force /\ last.again) =>
        /\ last.ret = 0
        /\ Triples(last.after) = Triples(last.before)
        /\ \A t \in Triples(last.after) :
              CountEntries(last.after, t[1], t[2], t[3])
                = CountEntries(last.before, t[1], t[2], t[3])

\* a second call without force returned, for a network whose files were imported before
C1_Witness ==
    /\ last.op = "import_network" /\ ~last.force /\ last.again
    /\ \E i \in 1..Len(last.before) : last.before[i].network_id = last.network
    /\ fs = MixedTree

(* File name shapes, read off the characters *)

AllDigits(s, from, to) == \A i \in from..to : IsDigitAt(s, i)

\* the date the digits at positions y..y+3, m..m+1, d..d+1 name, or None
NamedDate(s, y, m, d) ==
    MakeDate(DigitVal(s[y]) * 1000 + DigitVal(s[y + 1]) * 100 + DigitVal(s[y + 2]) * 10
               + DigitVal(s[y + 3]), Num2(s, m), Num2(s, d))

\* YYYY-MM-DD.log
IsDashName(f) ==
    /\ Len(f) = 14 /\ AllDigits(f, 1, 4) /\ f[5] = "-" /\ AllDigits(f, 6, 7)
    /\ f[8] = "-" /\ AllDigits(f, 9, 10) /\ Drop(f, 10) = DotLog
    /\ NamedDate(f, 1, 6, 9) # None

\* <prefix>_YYYYMMDD.log
IsPrefixedName(f) ==
    /\ Len(f) >= 13 /\ Drop(f, Len(f) - 4) = DotLog
    /\ f[Len(f) - 12] = "_" /\ AllDigits(f, Len(f) - 11, Len(f) - 4)
    /\ NamedDate(f, Len(f) - 11, Len(f) - 7, Len(f) - 5) # None

\* YYYYMMDD.log
IsBareName(f) ==
    /\ Len(f) = 12 /\ AllDigits(f, 1, 8) /\ Drop(f, 8) = DotLog
    /\ NamedDate(f, 1, 5, 7) # None

\* a year, a month and a day of one or two characters each, with sep between
\* them: what is left of a name that parses once every ".log" is removed
IsLooseDate(s, sep) ==
    \E lm \in 1..2, ld \in 1..2 :
        /\ Len(s) = 4 + lm + ld + 2 * Len(sep)
        /\ AllDigits(s, 1, 4)
        /\ SubSeq(s, 5, 4 + Len(sep)) = sep
        /\ SubSeq(s, 5 + Len(sep) + lm, 4 + 2 * Len(sep) + lm) = sep
        /\ \A i \in (5 + Len(sep))..(4 + Len(sep) + lm) : s[i] \in Digits
        /\ \A i \in (5 + 2 * Len(sep) + lm)..Len(s) : s[i] \in Digits \cup {" "}

\* C6 as claimed: the named date for YYYY-MM-DD.log and <prefix>_YYYYMMDD.log,
\* None for a name of any other shape.
C6_Original ==
    resp.op = "parse_log_date" =>
        LET f == resp.filename
        IN  /\ IsDashName(f) => resp.result = NamedDate(f, 1, 6, 9)
            /\ IsPrefixedName(f) => resp.result = NamedDate(f, Len(f) - 11, Len(f) - 7, Len(f) - 5)
            /\ (~IsDashName(f) /\ ~IsPrefixedName(f)) => resp.result = None

\* C6, amended: parse_log_date returns the named date for YYYY-MM-DD.log and
\* <prefix>_YYYYMMDD.log, and for a bare YYYYMMDD.log as well; it returns None for
\* every name that, with each ".log" removed, is not year-month-day with dashes
\* and whose part after the last underscore is not year, month, day run together
\* (the year of four digits, month and day of one or two characters).
C6_ParseLogDate ==
    resp.op = "parse_log_date" =>
        LET f == resp.filename
            s == RemoveAll(f, DotLog)
        IN  /\ IsDashName(f) => resp.result = NamedDate(f, 1, 6, 9)
            /\ IsPrefixedName(f) => resp.result = NamedDate(f, Len(f) - 11, Len(f) - 7, Len(f) - 5)
            /\ IsBareName(f) => resp.result = NamedDate(f, 1, 5, 7)
            /\ (~IsLooseDate(s, <<"-">>) /\ ~IsLooseDate(LastSegment(s), <<>>))
                  => resp.result = None

\* a <prefix>_YYYYMMDD.log name was parsed to its date
C6_Witness ==
    /\ resp.op = "parse_log_date"
    /\ IsPrefixedName(resp.filename)
    /\ resp.result = <<2025, 12, 31>>

(* The line filter of the specification, read off a stored content *)

\* the text after a leading "[HH:MM:SS] "
PastTimestamp(text) ==
    IF /\ Len(text) >= 11 /\ text[1] = "[" /\ AllDigits(text, 2, 3) /\ text[4] = ":"
       /\ AllDigits(text, 5, 6) /\ text[7] = ":" /\ AllDigits(text, 8, 9)
       /\ text[10] = "]" /\ text[11] = " "
    THEN Drop(text, 11) ELSE text

\* the nickname of "<nick> ...", or <<>>
Speaker(text) ==
    IF text # <<>> /\ text[1] = "<" /\ \E i \in 2..Len(text) : text[i] = ">"
    THEN SubSeq(text, 2, (CHOOSE i \in 2..Len(text) :
                            text[i] = ">" /\ \A j \in 2..(i - 1) : text[j] # ">") - 1)
    ELSE <<>>

ServiceNicks == { <<"n", "i", "c", "k", "s", "e", "r", "v">>, <<"c", "h", "a", "n", "s", "e", "r", "v">> }

\* a line the filter discards: "*** " (join, part, quit, topic and mode
\* announcements start so) or a service account speaking
Discarded(text) ==
    LET t == PastTimestamp(text)
    IN  StartsWith(t, <<"*", "*", "*", " ">>) \/ LowerStr(Speaker(t)) \in ServiceNicks

S_join ==
    << "[", "0", "8", ":", "0", "0", ":", "0", "0", "]", " ", "*", "*",
       "*", " ", "J", "o", "i", "n", "s", ":", " ", "b", "o", "b" >>

S_hello ==
    << "[", "0", "8", ":", "0", "0", ":", "0", "5", "]", " ", "<", "b",
       "o", "b", ">", " ", "h", "e", "l", "l", "o" >>

S_nickserv ==
    << "[", "0", "8", ":", "0", "0", ":", "1", "0", "]", " ", "<", "N",
       "i", "c", "k", "S", "e", "r", "v", ">", " ", "n", "o", "t", "i",
       "c", "e" >>

\* the readable files of channel c of network n whose names end in ".log" and parse to date d
FilesOf(n, c, d) ==
    IF ~fs[n].exists \/ c \notin DOMAIN fs[n].entries \/ ~fs[n].entries[c].isdir THEN {}
    ELSE { f \in DOMAIN fs[n].entries[c].files :
              /\ EndsWith(f, DotLog)
              /\ fs[n].entries[c].files[f].readable
              /\ parse_log_date(f) # None
              /\ DateStr(parse_log_date(f)) = d }

HasRow(rows, r) == \E i \in 1..Len(rows) : rows[i] = r

\* C7 as claimed: no stored entry is an announcement, a "*** " line or the
\* line of a service account.
C7_Original ==
    \A i \in 1..Len(log_entries) : ~Discarded(log_entries[i].content)

\* C7, amended: import_network discards no line: when a (network, channel,
\* date) has entries, every line of a file of that date is stored under its
\* position in the file, announcements, "*** " lines and service accounts'
\* lines included, less only trailing whitespace and formatting codes.
C7_EveryLineStored ==
    \A t \in Triples(log_entries) :
        \E f \in FilesOf(t[1], t[2], t[3]) :
            LET lines == fs[t[1]].entries[t[2]].files[f].lines
            IN  /\ lines # <<>>
                /\ \A i \in 1..Len(lines) :
                      HasRow(log_entries,
                             Row(t[1], t[2], t[3], i, strip_irc_formatting(RStrip(lines[i]))))

\* the join announcement and the NickServ line of the scenario are stored
C7_Witness ==
    /\ \E i \in 1..Len(log_entries) : log_entries[i].content = S_join
    /\ \E i \in 1..Len(log_entries) : log_entries[i].content = S_nickserv
    /\ \E i \in 1..Len(log_entries) : ~Discarded(log_entries[i].content)

\* the first call import_network("foo") for the scenario's directory has returned
ScenarioImported ==
    /\ fs = ScenarioTree
    /\ last.op = "import_network" /\ last.network = "foo" /\ last.before = <<>>

\* C8 as claimed: the scenario stores one entry, "hello" at line 2.
C8_Original ==
    ScenarioImported =>
        last.after = << Row("foo", "#a", D_0101, 2, <<"h", "e", "l", "l", "o">>) >>

\* C8, amended: the scenario stores three entries for (network, channel,
\* 2025-01-01): the three lines as they are in the file, timestamps and
\* speakers included, at line numbers 1, 2 and 3, and the call returns 3.
C8_ScenarioStoresThreeLines ==
    ScenarioImported =>
        /\ last.after = << Row("foo", "#a", D_0101, 1, S_join),
                           Row("foo", "#a", D_0101, 2, S_hello),
                           Row("foo", "#a", D_0101, 3, S_nickserv) >>
        /\ last.ret = 3
        /\ Take(log_entries, 3) = last.after

\* the scenario was imported and its entries are in the store
C8_Witness == ScenarioImported /\ Len(log_entries) = 3

(* Context *)

ContextServed == resp.op = "context" /\ resp.status = 200

\* the row ids of the file (network, channel, date) of the request
FileIds(data) ==
    { i \in 1..Len(log_entries) :
        /\ log_entries[i].network_id = data.network
        /\ log_entries[i].channel_name = data.channel
        /\ log_entries[i].log_date = data.date }

\* what C9 says of a response r, given the tables it was computed from
ContextWindow(r) ==
    LET c == r.data.line
        b == IF r.data.lines_before = <<>> THEN 2 ELSE r.data.lines_before[1]
        a == IF r.data.lines_after = <<>> THEN 2 ELSE r.data.lines_after[1]
        ctx == r.context
        window == { i \in FileIds(r.data) :
                      /\ log_entries[i].line_number >= r.start_line
                      /\ log_entries[i].line_number <= r.end_line }
    IN  /\ r.start_line = (IF c - b > 1 THEN c - b ELSE 1)
        /\ r.end_line = c + a
        /\ { ctx[k].id : k \in 1..Len(ctx) } = window
        /\ Len(ctx) = Cardinality(window)
        /\ \A k \in 1..Len(ctx) :
              /\ ctx[k].line = log_entries[ctx[k].id].line_number
              /\ ctx[k].content = log_entries[ctx[k].id].content
        /\ \A k \in 1..(Len(ctx) - 1) : ctx[k].line <= ctx[k + 1].line
        /\ r.total_lines = Cardinality(FileIds(r.data))
        /\ r.can_expand_up <=> r.start_line > 1
        /\ r.can_expand_down <=> r.end_line < r.total_lines

\* C9: in every context response start_line = max(1, c - b) and end_line =
\* c + a (b and a default to 2); the entries are the stored entries of the
\* file with start_line <= line_number <= end_line, each once, in ascending
\* line order; total_lines is the number of stored entries of the file;
\* can_expand_up iff start_line > 1; can_expand_down iff end_line < total_lines.
\* (Of the step that answers: the tables are those the answer was read from.)
C9_ContextWindow ==
    [][(resp.op = "none" /\ resp'.op = "context" /\ resp'.status = 200)
          => ContextWindow(resp')]_vars

\* a window cut at line 1 that leaves lines below it unread
C9_Witness ==
    /\ ContextServed
    /\ resp.data.line = 2 /\ resp.data.lines_before = <<>> /\ resp.data.lines_after = <<0>>
    /\ resp.start_line = 1 /\ Len(resp.context) = 2
    /\ ~resp.can_expand_up /\ resp.can_expand_down

Flagged == { k \in 1..Len(resp.context) : resp.context[k].is_match }

\* C10 as claimed: the entry at the center line is flagged, no other entry
\* is, and so at most one entry of a response is flagged.
C10_Original ==
    ContextServed =>
        /\ \A k \in 1..Len(resp.context) :
              resp.context[k].is_match <=> resp.context[k].line = resp.data.line
        /\ Cardinality(Flagged) <= 1

\* C10, amended: in every context response an entry is flagged is_match
\* exactly when its line equals the requested center line; once a file has
\* been imported again with force, several stored entries share that line
\* and each of them is flagged; at most one entry is flagged when no two
\* entries of the response share a line number.
C10_MatchIsCenterLine ==
    ContextServed =>
        /\ \A k \in 1..Len(resp.context) :
              resp.context[k].is_match <=> resp.context[k].line = resp.data.line
        /\ (\A j, k \in 1..Len(resp.context) :
                j # k => resp.context[j].line # resp.context[k].line)
              => Cardinality(Flagged) <= 1

\* two entries at the center line, both flagged, and an entry that is not
C10_Witness ==
    /\ ContextServed
    /\ Cardinality(Flagged) = 2
    /\ \E k \in 1..Len(resp.context) : ~resp.context[k].is_match


(* Search *)

SearchServed == resp.op = "search" /\ resp.status = 200

\* the query without the whitespace around it
Trimmed(q) ==
    LET inner == { i \in 1..Len(q) : q[i] \notin Whitespace }
    IN  IF inner = {} THEN <<>>
        ELSE SubSeq(q, CHOOSE i \in inner : \A j \in inner : i <= j,
                       CHOOSE i \in inner : \A j \in inner : i >= j)

\* text contains part as a contiguous run, letter case aside
Contains(text, part) ==
    \E i \in 0..(Len(text) - Len(part)) :
        \A k \in 1..Len(part) : Lower(text[i + k]) = Lower(part[k])

\* the row passes the network, channel and date filters of the request
PassesFilters(data, row) ==
    /\ row.network_id = data.network
    /\ data.channel # "" => row.channel_name = data.channel
    /\ data.start_date # 0 => row.log_date >= data.start_date
    /\ data.end_date # 0 => row.log_date <= data.end_date

\* the row matches the query in the mode its text selects
MatchesQuery(data, row) ==
    LET q == Trimmed(data.query)
    IN  IF \A i \in 1..Len(q) : q[i] \in WordChars
        THEN FullTextMatch(row.content, q)
        ELSE LikeMatch(row.content, <<"%">> \o q \o <<"%">>)

\* the stored entries that match the query and the filters, as row ids
Matching(data) ==
    { i \in 1..Len(log_entries) :
        PassesFilters(data, log_entries[i]) /\ MatchesQuery(data, log_entries[i]) }

ResultIds(r) == { r.results[k].id : k \in 1..Len(r.results) }

\* C2: a search returns at most 1000 results, and truncated is true exactly
\* when more than 1000 stored entries match the query and the filters.
C2_Original ==
    SearchServed =>
        /\ Len(resp.results) <= SEARCH_LIMIT
        /\ resp.truncated <=> Cardinality(Matching(resp.data)) > SEARCH_LIMIT

\* row i comes strictly before the entry e in the order date descending,
\* line number ascending
ComesBefore(i, e) ==
    \/ log_entries[i].log_date > e.date
    \/ log_entries[i].log_date = e.date /\ log_entries[i].line_number < e.line

\* C3: the results of an accepted search are stored entries that are in the
\* requested network, match the query and pass every filter given (channel,
\* start date, end date), each at most once; they are in the order log date
\* descending, then line number ascending; they are all the matching entries
\* when there are at most 1000, and otherwise 1000 of them that no entry left
\* out precedes in that order.
C3_FirstMatchesInOrder ==
    SearchServed =>
        LET res == resp.results
            M == Matching(resp.data)
        IN  /\ ResultIds(resp) \subseteq M
            /\ Cardinality(ResultIds(resp)) = Len(res)
            /\ Len(res) = (IF Cardinality(M) > SEARCH_LIMIT THEN SEARCH_LIMIT
                           ELSE Cardinality(M))
            /\ \A k \in 1..Len(res) :
                  LET row == log_entries[res[k].id]
                  IN  /\ res[k].network_id = row.network_id
                      /\ res[k].channel = row.channel_name
                      /\ res[k].date = row.log_date
                      /\ res[k].line = row.line_number
                      /\ res[k].content = row.content
            /\ \A k \in 1..(Len(res) - 1) :
                  \/ res[k].date > res[k + 1].date
                  \/ res[k].date = res[k + 1].date /\ res[k].line <= res[k + 1].line
            /\ \A i \in M \ ResultIds(resp) :
                  ~ComesBefore(i, res[Len(res)])

\* more than 1000 entries of two dates match a search with a channel filter,
\* and 1000 are returned
C3_Witness ==
    /\ SearchServed
    /\ resp.data.channel = "#a"
    /\ Cardinality(Matching(resp.data)) > SEARCH_LIMIT
    /\ Len(resp.results) = SEARCH_LIMIT
    /\ resp.results[1].date # resp.results[SEARCH_LIMIT].date

\* C4: the mode depends on the trimmed query alone: full-text exactly when
\* it consists of word characters (letters, digits, underscore) only,
\* substring mode otherwise, whatever the channel and date filters are.
C4_ModeFromQueryAlone ==
    SearchServed =>
        (resp.use_fulltext <=>
            \A i \in 1..Len(Trimmed(resp.data.query)) :
                Trimmed(resp.data.query)[i] \in Digits \cup LowerCase \cup UpperCase \cup {"_"})

\* a query of word characters and one with punctuation, both with whitespace
\* around them and with channel and date filters, were answered
C4_Witness ==
    /\ SearchServed
    /\ resp.data.channel = "#a" /\ resp.data.start_date # 0
    /\ \/ resp.data.query = Q_hello /\ resp.use_fulltext
       \/ resp.data.query = Q_a_b_slash /\ ~resp.use_fulltext

\* C5: in substring mode the entries returned are, among those passing the
\* filters, exactly the entries whose content contains the query text as a
\* contiguous run, letter case aside -- also when the query holds %, _ or \.
\* (Of the step that answers: the tables are those the answer was read from.)
C5_Original ==
    [][(resp.op = "none" /\ resp'.op = "search" /\ resp'.status = 200
        /\ ~resp'.use_fulltext)
          => \A i \in 1..Len(log_entries) :
                PassesFilters(resp'.data, log_entries[i]) =>
                    (i \in ResultIds(resp')
                       <=> Contains(log_entries[i].content, Trimmed(resp'.data.query)))]_vars


(* Forced runs *)

\* a call with force, made after a call for the same network returned, has returned
ForcedAgain == last.op = "import_network" /\ last.force /\ last.again

\* the lines of the readable files of (network, channel, date), as <<file, line index>>
LinesOf(t) ==
    UNION { { <<f, i>> : i \in 1..Len(fs[t[1]].entries[t[2]].files[f].lines) } :
            f \in FilesOf(t[1], t[2], t[3]) }

C12_Original ==
    runs.started <= 1 =>
        /\ \A i \in 1..Len(log_entries) : log_entries[i].line_number >= 1
        /\ \A i, j \in 1..Len(log_entries) :
              (/\ log_entries[i].network_id = log_entries[j].network_id
               /\ log_entries[i].channel_name = log_entries[j].channel_name
               /\ log_entries[i].log_date = log_entries[j].log_date
               /\ log_entries[i].line_number = log_entries[j].line_number) => i = j


(* Errors *)

RECURSIVE RowsBeforeError(_)
\* the rows the failed files left behind
RowsBeforeError(failed) ==
    IF failed = {} THEN 0
    ELSE LET x == CHOOSE x \in failed : TRUE
         IN  x[3] + RowsBeforeError(failed \ {x})

\* the files import_network looks at: names ending in ".log" that parse to
\* a date, in the channel directories of network n, as <<channel, file>>
LogFiles(n) ==
    UNION { { <<c, f>> : f \in { f \in DOMAIN fs[n].entries[c].files :
                                   EndsWith(f, DotLog) /\ parse_log_date(f) # None } } :
            c \in { c \in DOMAIN fs[n].entries : fs[n].entries[c].isdir } }

Failed(x, failed) == \E y \in failed : y[1] = x[1] /\ y[2] = x[2]

\* C13: when the reading or the inserting of a file raises, import_network
\* goes on: at its return every other file of every channel was handled (it
\* is empty, or its date has entries, and in a forced run each of its lines
\* was appended), and the value returned is the number of rows inserted for
\* the files that did not fail.
C13_ErrorsDoNotAbort ==
    (last.op = "import_network" /\ fs[last.network].exists) =>
        LET n == last.network
            appended == Drop(last.after, Len(last.before))
        IN  /\ last.ret = Len(appended) - RowsBeforeError(last.failed)
            /\ \A x \in LogFiles(n) :
                  LET file == fs[n].entries[x[1]].files[x[2]]
                      d == DateStr(parse_log_date(x[2]))
                  IN  ~Failed(x, last.failed) =>
                         /\ file.readable
                         /\ file.lines = <<>> \/ CountEntries(last.after, n, x[1], d) > 0
                         /\ last.force =>
                               \A i \in 1..Len(file.lines) :
                                   HasRow(appended, Row(n, x[1], d, i,
                                       strip_irc_formatting(RStrip(file.lines[i]))))

\* a call returned after a read error and after an insert that raised at
\* its second row, with the rows of later files and of the next channel counted
C13_Witness ==
    /\ last.op = "import_network" /\ last.network = "foo" /\ fs = MixedTree
    /\ \E x \in last.failed : x[3] = 0
    /\ \E x \in last.failed : x[1] = "#a" /\ x[2] = F_0101 /\ x[3] = 1
    /\ last.ret = 5
    /\ CountEntries(last.after, "foo", "#b", D_0102) = 2


(* main *)

\* C14: when the base directory does not exist the process exits with a
\* nonzero status and has neither initialized nor opened the store nor
\* called import_network; a call of import_network for a network without
\* log directory returns 0 and leaves no channel and no log entry of that
\* network, and main goes on: at its end every network of its list has had
\* its call, and the files of the networks that have a log directory are stored.
C14_MissingDirectories ==
    /\ (main.pc # "start" /\ ~main.base) =>
          /\ main.pc = "exited" /\ main.status # 0
          /\ ~main.inited /\ ~main.opened
          /\ runs.started = 0
          /\ networks = <<>> /\ channels = <<>> /\ log_entries = <<>>
          /\ txn = [networks |-> <<>>, channels |-> <<>>, entries |-> <<>>]
    /\ (last.op = "import_network" /\ ~fs[last.network].exists) =>
          /\ last.ret = 0
          /\ last.after = last.before
          /\ \A i \in 1..Len(Visible) : Visible[i].network_id # last.network
          /\ \A i \in 1..Len(channels \o txn.channels) :
                (channels \o txn.channels)[i][1] # last.network
    /\ main.pc = "done" =>
          /\ runs.started = Len(main.networks)
          /\ \A k \in 1..Len(main.networks) :
                LET n == main.networks[k]
                IN  /\ n \in runs.returned
                    /\ fs[n].exists =>
                          \A x \in LogFiles(n) :
                              LET file == fs[n].entries[x[1]].files[x[2]]
                              IN  (file.readable /\ file.lines # <<>>) =>
                                     CountEntries(log_entries, n, x[1],
                                                  DateStr(parse_log_date(x[2]))) > 0

\* main ran over both networks: the first had no log directory and its
\* call returned 0, the second was imported after it
C14_Witness ==
    /\ main.pc = "done"
    /\ fs = MissingFirstTree
    /\ main.networks = <<"foo", "mam">>
    /\ last.network = "mam" /\ last.ret = 2
    /\ Len(log_entries) = 2


(* Rejected searches *)

\* C15: a search whose query is empty or only whitespace, or whose network
\* is empty, is answered 400 before the handler comes to the store, and the
\* tables and the session are as they were.
C15_RejectedSearch ==
    [][(/\ resp.op = "none" /\ resp'.op = "search"
        /\ \/ \A i \in 1..Len(resp'.data.query) : resp'.data.query[i] \in {" ", "\t", "\n", "\r"}
           \/ resp'.data.network = "")
          => /\ resp'.status = 400
             /\ ~resp'.queried
             /\ UNCHANGED <<networks, channels, log_entries, txn, session>>]_vars

\* a query of blanks for an existing network was rejected, the store not empty
C15_Witness ==
    /\ resp.op = "search" /\ resp.status = 400
    /\ resp.data.query = Q_blank /\ resp.data.network = "foo"
    /\ log_entries # <<>>


(* Stored content *)

FormatCodes == {X03, X02, X1D, X1F, X16, X0F}

\* the one file of the tree has been imported and committed
LineImported == Len(log_entries) = 2

\* the second line of the one file
TheLine == fs["foo"].entries["#a"].files[F_0101].lines[2]

\* C16: no stored content (committed or in the importer's transaction)
\* holds \x03 or one of the toggles \x02, \x1D, \x1F, \x16, \x0F, and
\* strip_irc_formatting returns every stored content unchanged.
C16_NoFormattingCodes ==
    \A i \in 1..Len(Visible) :
        /\ \A k \in 1..Len(Visible[i].content) : Visible[i].content[k] \notin FormatCodes
        /\ strip_irc_formatting(Visible[i].content) = Visible[i].content

\* a line with a colour code and its argument is stored as its text
C16_Witness ==
    /\ LineImported
    /\ TheLine = <<X03, "1", "a", "\n">>
    /\ log_entries[2].content = <<"a">>

\* C17 as claimed: no stored entry has empty content.
C17_Original ==
    \A i \in 1..Len(log_entries) : log_entries[i].content # <<>>

\* C17, amended: blank lines are stored too: every line of an imported file
\* has its entry, and the entry's content is empty when the line holds only
\* whitespace, or only formatting codes and then only whitespace; a line
\* with other text than formatting codes and colour arguments is stored
\* with non-empty content.
C17_BlankLinesStored ==
    LineImported =>
        LET line == TheLine
            content == log_entries[2].content
        IN  /\ log_entries[2].line_number = 2
            /\ (\A k \in 1..Len(line) : line[k] \in {" ", "\n", "\t", "\r"}) => content = <<>>
            /\ (\E j \in 0..Len(line) :
                   /\ \A k \in 1..j : line[k] \in FormatCodes
                   /\ \A k \in (j + 1)..Len(line) : line[k] \in {" ", "\n", "\t", "\r"})
                 => content = <<>>
            /\ (\E k \in 1..Len(line) : line[k] \in LowerCase) => content # <<>>

\* the blank line "\n" is stored with empty content
C17_Witness ==
    /\ LineImported
    /\ TheLine = <<"\n">>
    /\ log_entries[2].content = <<>>


(* Crashes *)

\* the files of which the tables hold some line but not every line, as
\* <<network, channel, file>>
PartialFiles ==
    { x \in UNION { { <<n, y[1], y[2]>> : y \in LogFiles(n) } :
                    n \in { n \in NetworkIds : fs[n].exists } } :
        LET lines == fs[x[1]].entries[x[2]].files[x[3]].lines
            d == DateStr(parse_log_date(x[3]))
            stored == { i \in 1..Len(lines) :
                          HasRow(log_entries,
                                 Row(x[1], x[2], d, i, strip_irc_formatting(RStrip(lines[i])))) }
        IN  stored # {} /\ stored # 1..Len(lines) }

\* C18: when the import process dies inside import_network, the committed
\* networks, channels and entries are what they were (nothing committed is
\* rolled back, nothing uncommitted arrives), and the crash leaves no file
\* with only part of its lines stored: at any moment, a crash included,
\* such files are at most as many as the inserts that raised, so an
\* interruption alone leaves none, which is at most one.
C18_CrashKeepsCommitted ==
    /\ [][runs'.crashed > runs.crashed =>
             /\ networks' = networks
             /\ channels' = channels
             /\ log_entries' = log_entries
             /\ txn'.entries = <<>>]_vars
    /\ [](Cardinality(PartialFiles) <= runs.faults)

\* the process died with a channel committed and the rows of a file of
\* the next channel inserted but not committed
C18_Witness ==
    /\ last.op = "crash"
    /\ last.lost # <<>>
    /\ last.committed # <<>>
    /\ log_entries = last.committed


(* Readers during an import *)

\* the ids of the rows a 200 response carries
ResponseIds(r) ==
    IF r.op = "search" /\ r.status = 200 THEN { r.results[k].id : k \in 1..Len(r.results) }
    ELSE IF r.op = "context" /\ r.status = 200 THEN { r.context[k].id : k \in 1..Len(r.context) }
    ELSE {}

\* C19: the rows a request reads are the committed rows, and while
\* import_network runs the committed rows never end inside the rows the call
\* inserted for one file: of each file's rows a reader finds none or all.
C19_FileAtomicToReaders ==
    /\ [](imp.pc # "idle" =>
             \A b \in imp.batches : ~(b[1] <= Len(log_entries) /\ Len(log_entries) < b[2]))
    /\ [][resp.op = "none" => ResponseIds(resp') \subseteq 1..Len(log_entries)]_vars

\* a search was answered with rows while the call had inserted the rows of
\* a file of several lines and not yet committed them
C19_Witness ==
    /\ imp.pc = "file"
    /\ \E b \in imp.batches : b[1] = Len(log_entries) + 1 /\ b[2] > b[1]
    /\ resp.op = "search" /\ resp.status = 200 /\ resp.results # <<>>


(* Read-only requests *)

\* C20: a step in which search_logs or get_context answers, with 200, 400
\* or 401, leaves networks, channels, log_entries and the importer's open
\* transaction as they were; log_entries changes in the importer's commit
\* only, and only by rows added at its end.
C20_RequestsReadOnly ==
    [][/\ resp' # resp => UNCHANGED <<networks, channels, log_entries, txn>>
       /\ log_entries' # log_entries =>
             /\ imp.pc = "file" /\ imp'.pc = "channel"
             /\ log_entries' = log_entries \o txn.entries]_vars

\* a request was answered with rows of a store that holds entries
C20_Witness ==
    /\ log_entries # <<>>
    /\ resp.op \in {"search", "context"}
    /\ resp.status = 200
    /\ resp.op = "search" => resp.results # <<>>
    /\ resp.op = "context" => resp.context # <<>>


(* Growth of the store *)

GrowsFrom(old, new) == Len(old) <= Len(new) /\ SubSeq(new, 1, Len(old)) = old

\* C21: over import_network calls, forced or not, with inserts that raise
\* and with crashes, every step leaves the stored entries and the stored
\* channel rows in place and unchanged (rows are only added after them), and
\* the channels table never holds two rows of one (network, name).
C21_StoreOnlyGrows ==
    /\ [][GrowsFrom(log_entries, log_entries') /\ GrowsFrom(channels, channels')]_vars
    /\ [](\A i, j \in 1..Len(channels) : channels[i] = channels[j] => i = j)

\* a forced call for a network imported before has returned with more
\* entries than it found, its channels being there already
C21_Witness ==
    /\ last.op = "import_network" /\ last.again /\ last.force
    /\ Len(last.after) > Len(last.before)
    /\ last.before # <<>>
    /\ \E i \in 1..Len(channels) : channels[i][1] = last.network


(* Files of one date *)

\* every line of the file x = <<network, channel, file>> is stored under the
\* file's date and the line's number
WholeFileStored(x) ==
    LET lines == fs[x[1]].entries[x[2]].files[x[3]].lines
        d == DateStr(parse_log_date(x[3]))
    IN  \A i \in 1..Len(lines) :
            HasRow(log_entries, Row(x[1], x[2], d, i, strip_irc_formatting(RStrip(lines[i]))))

\* C22 as claimed: when the first call of import_network, not forced, over
\* the empty store has returned and no file raised, every line of every
\* readable '.log' file of the network whose name parses to a date is stored.
C22_Original ==
    (/\ last.op = "import_network" /\ ~last.force /\ last.before = <<>>
     /\ last.failed = {} /\ runs.started = 1 /\ imp.pc = "idle")
    => \A y \in LogFiles(last.network) :
          fs[last.network].entries[y[1]].files[y[2]].readable
             => WholeFileStored(<<last.network, y[1], y[2]>>)


(* Inserts that fail partway *)

\* C23 as claimed: the committed table never holds some lines of a file
\* without holding all of them; a file whose insert raised has no line
\* stored.
C23_Original == PartialFiles = {}


(* Concurrent imports *)

\* C24: with two import_network calls for one network running at once
\* without force, in every interleaving of their steps no two stored
\* entries have the same (network, channel, date, line number); the two
\* processes never both hold an open write transaction.
C24_NoDuplicateLines ==
    /\ \A i, j \in 1..Len(log_entries) :
          (/\ log_entries[i].network_id = log_entries[j].network_id
           /\ log_entries[i].channel_name = log_entries[j].channel_name
           /\ log_entries[i].log_date = log_entries[j].log_date
           /\ log_entries[i].line_number = log_entries[j].line_number) => i = j
    /\ ~(HoldsLock(imp, txn) /\ PeerHoldsLock)

\* both calls are under way, neither process died: one has committed
\* channel #a and the other, past #a as well, is at the files of #b
C24_Witness ==
    /\ runs.started = 2 /\ runs.crashed = 0
    /\ imp.pc = "file" /\ imp.channel = "#b"
    /\ peer.imp.pc = "channel"
    /\ log_entries # <<>>


(* Expansion below the window *)

\* C25 as claimed: in the step in which get_context answers with 200,
\* can_expand_down is true exactly when the tables hold a line of the
\* request's (network, channel, date) with a number above end_line, and
\* total_lines is the greatest stored line number of that file.
C25_Original ==
    [][(resp.op = "none" /\ resp'.op = "context" /\ resp'.status = 200)
          => /\ resp'.can_expand_down
                  <=> \E i \in FileIds(resp'.data) :
                         log_entries[i].line_number > resp'.end_line
             /\ \A i \in FileIds(resp'.data) :
                   log_entries[i].line_number <= resp'.total_lines
             /\ resp'.total_lines > 0
                  => \E i \in FileIds(resp'.data) :
                        log_entries[i].line_number = resp'.total_lines]_vars


(* Sessions *)

DataOps == {"search", "context", "networks", "channels", "stats"}

\* the password and the code of a login request are right for the users
\* table as it is
RightCredentials(data) ==
    /\ data.username \in DOMAIN users
    /\ data.password # <<>>
    /\ hash_password(data.password) = users[data.username].password_hash
    /\ users[data.username].totp_enabled = 1
          => data.totp_code = Code(users[data.username].totp_secret)

\* C26: a search, context, networks, channels or stats request is answered
\* by its handler only when the session holds logged_in, and gets 401
\* otherwise; a session comes to hold logged_in only in a login step whose
\* password hashes to the stored hash and, with totp_enabled set, whose code
\* verifies against the stored secret; every other login step (unknown user,
\* wrong or missing password, missing or wrong code) leaves the session as
\* it was, so a session without logged_in stays without it.
C26_ServedOnlyAfterLogin ==
    [][/\ (resp.op = "none" /\ resp'.op \in DataOps)
             => (resp'.status = 401 <=> "logged_in" \notin DOMAIN session)
       /\ ("logged_in" \notin DOMAIN session /\ "logged_in" \in DOMAIN session')
             => /\ resp'.op = "login" /\ resp'.success
                /\ RightCredentials(resp'.data)
       /\ (resp.op = "none" /\ resp'.op = "login" /\ ~RightCredentials(resp'.data))
             => /\ session' = session
                /\ ~resp'.success]_vars

\* with 2FA enabled, a login with the password and no code was answered
\* with requires_2fa in a session that stayed logged out
C26_Witness ==
    /\ resp.op = "login" /\ resp.status = 200 /\ ~resp.success
    /\ users["admin"].totp_enabled = 1
    /\ "logged_in" \notin DOMAIN session


(* The 2FA secret *)

\* C27 as claimed: a step that starts with the user's totp_enabled at 1 and
\* changes the user's totp_secret is a step that disables 2FA; setup_2fa
\* with 2FA enabled leaves the secret login verifies against as it was.
C27_Original ==
    [][\A u \in DOMAIN users :
          (users[u].totp_enabled = 1 /\ users'[u].totp_secret # users[u].totp_secret)
             => /\ users'[u].totp_enabled = 0
                /\ users'[u].totp_secret = None]_vars

=============================================================================
